---------------------------- MODULE Spec2Model ----------------------------
(***************************************************************************)
(* Model of the Router Network Interface Monitor (brugie/router_monitor).  *)
(*                                                                         *)
(* SpecOrch  : the Poll Orchestrator, main.py process_routers, as the      *)
(*             asyncio tasks it creates under one Semaphore.               *)
(* SpecDb    : the Persistence Engine, db/connection.py db_connection and  *)
(*             execute_with_retry, and the DAO operations built on them.   *)
(* SpecUpsert: save_router and save_or_update_interfaces as transactions   *)
(*             of one or two writers on the same store.                    *)
(* SpecRun   : main.py main with db/schema.py create_database_tables and   *)
(*             the Partition Maintainer, over successive runs.             *)
(* SpecPool  : the connection pool used by tasks of one event loop.        *)
(* SpecPoll  : device poll tasks, snmp/client.py, on the event loop.       *)
(* SpecRead  : main.py read_router_ips on a device list file.              *)
(* SpecList  : read_router_ips followed by process_routers.                *)
(* SpecUtil  : db/interface_dao.py calculate_interface_utilization.        *)
(* SpecParse : snmp/parsers.py parse_snmp_value and                       *)
(*             parse_snmp_walk_response.                                   *)
(* SpecBind  : snmp/client.py get_monitored_interfaces on the parsed       *)
(*             tables of a device.                                         *)
(* SpecStats : save_interface_stats_batch over successive batches on the   *)
(*             interface_stats table.                                      *)
(***************************************************************************)
EXTENDS Integers, Sequences, FiniteSets, TLC

(***************************************************************************)
(* Bounds of the model.                                                    *)
(***************************************************************************)
MaxRouters == 3
MaxCap == 2

Addrs == {"10.0.0.1", "10.0.0.2"}

VARIABLES
    \* ---- Poll Orchestrator (main.py) ----
    router_ips,         \* the input list of process_routers
    cap,                \* config.max_concurrent_routers
    semValue,           \* asyncio.Semaphore._value
    task,               \* per list position: where its task is
    successful_count,   \* the nonlocal counter
    failed_routers,     \* the shared failure list (addresses)
    failedIdx,          \* history: list positions appended to failed_routers
    succIdx,            \* history: list positions that incremented the counter
    pcMain,             \* where process_routers itself is
    handed,             \* the call of save_failed_routers and its argument
    failedFile,         \* content of config.failed_routers_file
    \* ---- Persistence Engine (db/connection.py, db/*_dao.py) ----
    pool_size,          \* config.db_pool_size
    closes,             \* per connection handed out by the pool: times closed
    cm,                 \* the db_connection generators: <<outer, inner>>
    depth,              \* which with-statement is running (1 outer, 2 inner)
    op,                 \* the DAO operation being executed
    arg,                \* its arguments
    pc,                 \* where it is
    exc,                \* exception in flight, or "none"
    ret,                \* value being returned through the with-statement
    outcome,            \* how the operation ended, as its caller sees it
    db,                 \* committed content of the store
    tx,                 \* content as seen by the open transaction
    db0,                \* history: db when the operation was called
    xr,                 \* the last execute_with_retry call
    interface_map,      \* local of save_interface_stats_batch
    stats_values,       \* local of save_interface_stats_batch
    retry_count,        \* local of save_interface_stats_batch
    idx,                \* loop position of save_or_update_interfaces
    hist                \* history of the operation

orchVars == <<router_ips, cap, semValue, task, successful_count, failed_routers,
              failedIdx, succIdx, pcMain, handed, failedFile>>

dbVars == <<pool_size, closes, cm, depth, op, arg, pc, exc, ret, outcome, db, tx,
            db0, xr, interface_map, stats_values, retry_count, idx, hist>>

VARIABLES
    \* ---- Concurrent writers on the store (db/router_dao.py, db/interface_dao.py) ----
    nWriters,           \* how many processes write to the store
    writers,            \* per writer: its upsert call and open transaction
    udb,                \* committed rows of routers and interfaces
    seen,               \* history: every (key, id) ever committed
    commitOrder,        \* history: the writers in the order their commits took effect
    \* ---- Partition Maintainer and the run of main (db/schema.py, main.py) ----
    interval,           \* config.partition_interval_days
    today,              \* datetime.now().date(), as a day number
    tableExists,        \* interface_stats exists
    parts,              \* dated partitions: set of [start, end, name]
    run,                \* the current invocation of main
    \* ---- Connection pool under the event loop (db/connection.py) ----
    loopOwner,          \* the task running on the event-loop thread, 0 if none
    ptask,              \* per task: where its DAO call is
    poolFree            \* connections of the pool not handed out

upsertVars == <<nWriters, writers, udb, seen, commitOrder>>

partVars == <<interval, today, tableExists, parts, run>>

poolVars == <<loopOwner, ptask, poolFree>>

VARIABLES
    \* ---- Device poll tasks on the event loop (snmp/client.py, db/connection.py) ----
    sched,              \* the task that holds the event-loop thread, 0 if none
    dtask,              \* per poll task: where it is and what it has seen
    \* ---- The device list file (main.py read_router_ips) ----
    listFile,           \* the file named by --router-list
    \* ---- Utilization read path (db/interface_dao.py) ----
    util,               \* a call of calculate_interface_utilization
    \* ---- Response Parser (snmp/parsers.py) ----
    parse,              \* a call of parse_snmp_value or parse_snmp_walk_response
    \* ---- Interface assembly (snmp/client.py get_monitored_interfaces) ----
    bind,               \* a device's tables and the records assembled from them
    \* ---- Sample store (db/interface_dao.py, db/schema.py interface_stats) ----
    samp                \* the clock, the sample rows and the batch being written

pollVars == <<sched, dtask>>

listVars == <<listFile>>

utilVars == <<util>>

parseVars == <<parse>>

bindVars == <<bind>>

sampVars == <<samp>>

lateVars == <<pollVars, listVars, utilVars, parseVars, bindVars, sampVars>>

nonDbVars == <<orchVars, upsertVars, partVars, poolVars, lateVars>>

nonOrchVars == <<dbVars, upsertVars, partVars, poolVars, lateVars>>

vars == <<orchVars, dbVars, upsertVars, partVars, poolVars, lateVars>>

(***************************************************************************)
(* Helpers                                                                 *)
(***************************************************************************)
SeqsUpTo(S, n) == UNION {[1..k -> S] : k \in 0..n}

Range(s) == {s[i] : i \in DOMAIN s}

Tasks == DOMAIN router_ips

(***************************************************************************)
(* Poll Orchestrator: src/main.py process_routers                          *)
(***************************************************************************)

\* The file as an earlier run may have left it.
AbsentFile == [exists |-> FALSE, lines |-> <<>>]

PriorFiles == {AbsentFile, [exists |-> TRUE, lines |-> <<"10.0.0.1">>]}

\* The Device Poller, `await process_router(router_ip, config)`: it ends by
\* returning success or failure, or by raising.
ProcessRouterOutcomes == {"success", "failure", "raises"}

NeverHanded == [called |-> FALSE, list |-> <<>>]

InitOrchVars ==
    /\ router_ips \in SeqsUpTo(Addrs, MaxRouters)
    /\ cap \in 0..MaxCap
    /\ semValue = cap
    /\ task = [i \in DOMAIN router_ips |-> "created"]
    /\ successful_count = 0
    /\ failed_routers = <<>>
    /\ failedIdx = <<>>
    /\ succIdx = {}
    /\ pcMain = "gather"
    /\ handed = NeverHanded
    /\ failedFile \in PriorFiles

\* `async with semaphore:` entry.  Semaphore.acquire proceeds only on a free
\* permit; otherwise the task stays queued.
SemAcquire(i) ==
    /\ pcMain = "gather"
    /\ task[i] = "created"
    /\ semValue > 0
    /\ semValue' = semValue - 1
    /\ task' = [task EXCEPT ![i] = "polling"]
    /\ UNCHANGED <<router_ips, cap, successful_count, failed_routers, failedIdx,
                   succIdx, pcMain, handed, failedFile>>
    /\ UNCHANGED nonOrchVars

\* Mutant: the counter is read before the await and written back after it.
IncrementFromStaleRead(n) == 1

\* `successful_count += 1`: no await between the read and the write.
IncrementSuccess(n) == n + 1

\* `async with` exit: Semaphore.release.
SemRelease(v) == v + 1

\* process_router returned; the if/else and the release run without suspension.
PollReturns(i) ==
    /\ pcMain = "gather"
    /\ task[i] = "polling"
    /\ \E o \in ProcessRouterOutcomes \ {"raises"} :
         IF o = "success"
         THEN /\ successful_count' = IncrementSuccess(successful_count)
              /\ succIdx' = succIdx \cup {i}
              /\ task' = [task EXCEPT ![i] = "succeeded"]
              /\ UNCHANGED <<failed_routers, failedIdx>>
         ELSE /\ failed_routers' = Append(failed_routers, router_ips[i])
              /\ failedIdx' = Append(failedIdx, i)
              /\ task' = [task EXCEPT ![i] = "failed"]
              /\ UNCHANGED <<successful_count, succIdx>>
    /\ semValue' = SemRelease(semValue)
    /\ UNCHANGED <<router_ips, cap, pcMain, handed, failedFile>>
    /\ UNCHANGED nonOrchVars

\* Mutant: acquire/release by hand, the release skipped by the exception.
PollRaisesKeepsPermit(i) ==
    /\ pcMain = "gather"
    /\ task[i] = "polling"
    /\ task' = [task EXCEPT ![i] = "raised"]
    /\ UNCHANGED <<router_ips, cap, semValue, successful_count, failed_routers,
                   failedIdx, succIdx, pcMain, handed, failedFile>>
    /\ UNCHANGED nonOrchVars

\* process_router raised: the exception leaves the `async with` (permit
\* released) and ends the task; nothing catches it in the wrapper.
PollRaises(i) ==
    /\ pcMain = "gather"
    /\ task[i] = "polling"
    /\ "raises" \in ProcessRouterOutcomes
    /\ task' = [task EXCEPT ![i] = "raised"]
    /\ semValue' = SemRelease(semValue)
    /\ UNCHANGED <<router_ips, cap, successful_count, failed_routers, failedIdx,
                   succIdx, pcMain, handed, failedFile>>
    /\ UNCHANGED nonOrchVars

\* `await asyncio.gather(*tasks)` with every task finished normally.
GatherReturns ==
    /\ pcMain = "gather"
    /\ \A i \in Tasks : task[i] \in {"succeeded", "failed"}
    /\ pcMain' = "save"
    /\ UNCHANGED <<router_ips, cap, semValue, task, successful_count,
                   failed_routers, failedIdx, succIdx, handed, failedFile>>
    /\ UNCHANGED nonOrchVars

\* gather without return_exceptions: the first exception of a task is raised
\* in process_routers, which has no handler and so raises itself.
GatherRaises ==
    /\ pcMain = "gather"
    /\ \E i \in Tasks : task[i] = "raised"
    /\ pcMain' = "raised"
    /\ UNCHANGED <<router_ips, cap, semValue, task, successful_count,
                   failed_routers, failedIdx, succIdx, handed, failedFile>>
    /\ UNCHANGED nonOrchVars

\* save_failed_routers: open(filename, 'w') and one line per address; any
\* exception is logged and swallowed.
WriteFailedFile(lines, ok) ==
    IF ok THEN [exists |-> TRUE, lines |-> lines] ELSE failedFile

SaveFailed ==
    /\ pcMain = "save"
    /\ IF failed_routers # <<>>
       THEN /\ handed' = [called |-> TRUE, list |-> failed_routers]
            /\ \E ok \in BOOLEAN : failedFile' = WriteFailedFile(failed_routers, ok)
       ELSE UNCHANGED <<handed, failedFile>>
    /\ pcMain' = "returned"
    /\ UNCHANGED <<router_ips, cap, semValue, task, successful_count,
                   failed_routers, failedIdx, succIdx>>
    /\ UNCHANGED nonOrchVars

\* asyncio.run(main()) after main raised: the remaining tasks are cancelled.
CancelTask(i) ==
    /\ pcMain = "raised"
    /\ task[i] \in {"created", "polling"}
    /\ semValue' = IF task[i] = "polling" THEN SemRelease(semValue) ELSE semValue
    /\ task' = [task EXCEPT ![i] = "cancelled"]
    /\ UNCHANGED <<router_ips, cap, successful_count, failed_routers, failedIdx,
                   succIdx, pcMain, handed, failedFile>>
    /\ UNCHANGED nonOrchVars


(***************************************************************************)
(* Persistence Engine: values, store, pool                                 *)
(***************************************************************************)

\* Python values that cross the DAO boundary.
PyNone == [tag |-> "None", n |-> 0]

PyFalse == [tag |-> "bool", n |-> 0]

PyTrue == [tag |-> "bool", n |-> 1]

PyInt(n) == [tag |-> "int", n |-> n]

\* The decimal text of n, as a str.
PyStr(n) == [tag |-> "str", n |-> n]

\* Interface indices as a caller may pass them.
IfIndexVals == {PyInt(1), PyInt(2), PyStr(1)}

Attrs == {"x", "y"}

\* A %s parameter bound to a BIGINT column: int n and str 'n' both give n.
SqlInt(v) == v.n

EmptyMap == [v \in {} |-> 0]

EmptyDb == [routers |-> {}, interfaces |-> {}, stats |-> {}]

RouterRow(id, ip, info) == [router_id |-> id, ip_address |-> ip, info |-> info]

InterfaceRow(id, rid, ifIndex, attr) ==
    [interface_id |-> id, router_id |-> rid, ifIndex |-> ifIndex, attr |-> attr]

\* Stores the engine may find when an operation is called.
InitDbs ==
    LET r1 == {RouterRow(1, "10.0.0.1", "x")}
        i1 == InterfaceRow(1, 1, 1, "x")
        i2 == InterfaceRow(2, 1, 2, "x")
        r2 == {RouterRow(2, "10.0.0.2", "x")}
        i3 == InterfaceRow(3, 2, 1, "x")
        s1 == [stat_id |-> 1, interface_id |-> 1, sample |-> 0]
    IN  { EmptyDb,
          [routers |-> r1, interfaces |-> {}, stats |-> {}],
          [routers |-> r1, interfaces |-> {i1}, stats |-> {}],
          [routers |-> r1, interfaces |-> {i1, i2}, stats |-> {}],
          [routers |-> r1 \cup r2, interfaces |-> {i1, i2, i3}, stats |-> {s1}] }

\* AUTO_INCREMENT
NextId(ids) == IF ids = {} THEN 1 ELSE (CHOOSE m \in ids : \A x \in ids : x <= m) + 1

\* Connections of the pool not handed out.
Free == pool_size - Cardinality({h \in DOMAIN closes : closes[h] = 0})

\* mysql.connector.Error and its subclasses, as the `except Error` clauses see them.
IsError(e) == e \in {"StoreError", "AcquireError"}

(***************************************************************************)
(* db/connection.py execute_with_retry                                     *)
(***************************************************************************)
XrMaxRetries == 3

\* Mutant: a backoff that grows by a fixed step.
BackoffLinear(rc) == rc + 1

\* backoff = 0.5 * (2 ** retry_count), in half seconds
Backoff(rc) == 2 ^ rc

\* The while loop, against the store's answers outs[1], outs[2], ... to the
\* successive cursor.execute calls.
RECURSIVE XrLoop(_, _, _)
XrLoop(outs, rc, sleeps) ==
    IF rc < XrMaxRetries
    THEN IF outs[rc + 1]
         THEN [result |-> "True", tried |-> SubSeq(outs, 1, rc + 1), sleeps |-> sleeps]
         ELSE IF rc + 1 >= XrMaxRetries
              THEN [result |-> "raise", tried |-> SubSeq(outs, 1, rc + 1),
                    sleeps |-> sleeps]
              ELSE XrLoop(outs, rc + 1, Append(sleeps, Backoff(rc + 1)))
    ELSE [result |-> "False", tried |-> SubSeq(outs, 1, rc), sleeps |-> sleeps]

execute_with_retry(outs) == XrLoop(outs, 0, <<>>)

NoXr == [result |-> "none", tried |-> <<>>, sleeps |-> <<>>]

\* What the store may answer to the attempts of one statement.  A statement
\* that breaks a constraint fails every time.
XrOuts(canSucceed) ==
    IF canSucceed THEN [1..XrMaxRetries -> BOOLEAN]
    ELSE {[i \in 1..XrMaxRetries |-> FALSE]}

(***************************************************************************)
(* db/connection.py db_connection: a generator under @contextmanager.      *)
(* pc = "enter"   : __enter__ runs the generator to its first yield        *)
(* pc = "exit"    : __exit__ resumes it (exc = "none") or throws exc in    *)
(* pc = "reenter" : the generator caught the thrown Error and loops on     *)
(* pc = "unwind"  : the with-statement is left                             *)
(***************************************************************************)
CmMaxRetries == 3

NewCm == [rc |-> 0, conn |-> 0, st |-> "off"]

NoHist == [bodyError |-> "none", storeError |-> FALSE, insertFails |-> 0,
           mapResolved |-> FALSE, yields |-> <<0, 0>>]

\* connection.close() on a pooled connection gives it back to the pool.
CloseConn(cl, h) == [cl EXCEPT ![h] = @ + 1]

\* Where the body of the with-statement of this depth starts.
BodyStart ==
    IF depth = 2 THEN <<"gm_select", 2>>
    ELSE IF op = "save_router" THEN <<"sr_select", 1>>
    ELSE IF op = "save_or_update_interfaces"
         THEN <<IF arg.interfaces = <<>> THEN "si_commit" ELSE "si_select", 1>>
    \* save_interface_stats_batch: cursor, current_time, then the call
    \* `await get_interface_id_map(router_id, config)` with its own with-statement
    ELSE <<"enter", 2>>

\* connection_pool.get_connection() returns a connection; the generator yields it.
GetConnection ==
    /\ pc = "enter"
    /\ Free > 0
    /\ closes' = Append(closes, 0)
    /\ cm' = [cm EXCEPT ![depth] = [@ EXCEPT !.conn = Len(closes) + 1, !.st = "body"]]
    /\ hist' = [hist EXCEPT !.yields[depth] = @ + 1]
    /\ pc' = BodyStart[1]
    /\ depth' = BodyStart[2]
    /\ tx' = IF depth = 1 THEN db ELSE tx
    /\ UNCHANGED <<pool_size, op, arg, exc, ret, outcome, db, db0, xr,
                   interface_map, stats_values, retry_count, idx>>
    /\ UNCHANGED nonDbVars

\* get_connection() raises Error (pool exhausted, or the server cannot be
\* reached) before the body has run: connection is still None, nothing to close.
GetConnectionFails ==
    /\ pc = "enter"
    /\ cm' = [cm EXCEPT ![depth].rc = @ + 1]
    /\ IF cm[depth].rc + 1 >= CmMaxRetries
       THEN /\ exc' = "AcquireError"
            /\ pc' = "unwind"
       ELSE UNCHANGED <<exc, pc>>
    /\ UNCHANGED <<pool_size, closes, depth, op, arg, ret, outcome, db, tx, db0, xr,
                   interface_map, stats_values, retry_count, idx, hist>>
    /\ UNCHANGED nonDbVars

\* The with-body ended.  Normal end: the generator resumes after the yield,
\* breaks, and the finally clause closes the connection.  An Error of the body
\* is thrown in at the yield and caught by `except Error`: retry_count += 1,
\* re-raise at the ceiling, else sleep and, after the finally clause, loop.
\* Any other exception passes through the finally clause.
CmExit ==
    /\ pc = "exit"
    /\ closes' = CloseConn(closes, cm[depth].conn)
    /\ IF IsError(exc)
       THEN /\ cm' = [cm EXCEPT ![depth] =
                        [@ EXCEPT !.rc = @ + 1,
                                  !.st = IF cm[depth].rc + 1 >= CmMaxRetries
                                         THEN "closed" ELSE "retry"]]
            /\ pc' = IF cm[depth].rc + 1 >= CmMaxRetries THEN "unwind" ELSE "reenter"
       ELSE /\ cm' = [cm EXCEPT ![depth].st = "closed"]
            /\ pc' = "unwind"
    /\ UNCHANGED <<pool_size, depth, op, arg, exc, ret, outcome, db, tx, db0, xr,
                   interface_map, stats_values, retry_count, idx, hist>>
    /\ UNCHANGED nonDbVars

\* After "generator didn't stop after throw()" contextlib closes the generator
\* (its finally clause then closes the connection) on interpreters that do so;
\* on the others the generator stays suspended at the yield until collected.
GeneratorClosedOnExit == BOOLEAN

\* The loop after a caught body Error gets a connection and yields a second
\* time: @contextmanager raises RuntimeError in the with-statement.
ReacquireYields ==
    /\ pc = "reenter"
    /\ Free > 0
    /\ \E closed \in GeneratorClosedOnExit :
         /\ closes' = Append(closes, IF closed THEN 1 ELSE 0)
         /\ cm' = [cm EXCEPT ![depth] =
                     [@ EXCEPT !.conn = Len(closes) + 1,
                               !.st = IF closed THEN "closed" ELSE "suspended"]]
    /\ hist' = [hist EXCEPT !.yields[depth] = @ + 1]
    /\ exc' = "RuntimeError"
    /\ pc' = "unwind"
    /\ UNCHANGED <<pool_size, depth, op, arg, ret, outcome, db, tx, db0, xr,
                   interface_map, stats_values, retry_count, idx>>
    /\ UNCHANGED nonDbVars

\* The loop after a caught body Error fails to get a connection: `connection`
\* still names the one already closed, and the finally clause closes it again.
ReacquireFails ==
    /\ pc = "reenter"
    /\ closes' = CloseConn(closes, cm[depth].conn)
    /\ IF cm[depth].rc + 1 >= CmMaxRetries
       THEN /\ cm' = [cm EXCEPT ![depth] = [@ EXCEPT !.rc = @ + 1, !.st = "closed"]]
            /\ exc' = "AcquireError"
            /\ pc' = "unwind"
       ELSE /\ cm' = [cm EXCEPT ![depth].rc = @ + 1]
            /\ UNCHANGED <<exc, pc>>
    /\ UNCHANGED <<pool_size, depth, op, arg, ret, outcome, db, tx, db0, xr,
                   interface_map, stats_values, retry_count, idx, hist>>
    /\ UNCHANGED nonDbVars

\* A generator left suspended at its yield is finalized when collected:
\* GeneratorExit at the yield runs the finally clause.
GcFinalize ==
    /\ \E k \in 1..2 :
         /\ cm[k].st = "suspended"
         /\ closes' = CloseConn(closes, cm[k].conn)
         /\ cm' = [cm EXCEPT ![k].st = "closed"]
    /\ UNCHANGED <<pool_size, depth, op, arg, pc, exc, ret, outcome, db, tx, db0, xr,
                   interface_map, stats_values, retry_count, idx, hist>>
    /\ UNCHANGED nonDbVars

\* The value each operation returns from its `except Error` clause.
ErrorValue ==
    IF op = "save_router" THEN PyNone ELSE PyFalse

\* Leaving the with-statement.  Inner (get_interface_id_map): the map is
\* returned, `except Error` returns {}, anything else is raised inside the
\* outer with-body.  Outer: the value is returned, `except Error` returns the
\* error value, anything else reaches the caller.
Unwind ==
    /\ pc = "unwind"
    /\ IF depth = 2
       THEN /\ depth' = 1
            /\ IF exc = "none" \/ IsError(exc)
               THEN /\ pc' = "ss_check"
                    /\ exc' = "none"
                    /\ interface_map' = IF exc = "none" THEN interface_map ELSE EmptyMap
                    /\ hist' = [hist EXCEPT !.mapResolved = TRUE]
               ELSE /\ pc' = "exit"
                    /\ interface_map' = EmptyMap
                    /\ hist' = [hist EXCEPT !.bodyError = exc]
                    /\ UNCHANGED exc
            /\ UNCHANGED outcome
       ELSE /\ pc' = "done"
            /\ outcome' = IF exc = "none" THEN [kind |-> "returned", val |-> ret, exc |-> "none"]
                          ELSE IF IsError(exc)
                               THEN [kind |-> "returned", val |-> ErrorValue, exc |-> "none"]
                               ELSE [kind |-> "raised", val |-> PyNone, exc |-> exc]
            /\ exc' = "none"
            /\ UNCHANGED <<depth, interface_map, hist>>
    /\ UNCHANGED <<pool_size, closes, cm, op, arg, ret, db, tx, db0, xr,
                   stats_values, retry_count, idx>>
    /\ UNCHANGED nonDbVars

(***************************************************************************)
(* The DAO operations                                                      *)
(***************************************************************************)

\* A statement or commit of the with-body raised Error.
BodyStoreError(h) ==
    [h EXCEPT !.storeError = TRUE,
              !.bodyError = IF depth = 1 THEN "StoreError" ELSE @]

\* ---- db/router_dao.py save_router ----

SrSelect ==
    /\ pc = "sr_select"
    /\ \E outs \in XrOuts(TRUE) :
         /\ xr' = execute_with_retry(outs)
         /\ IF xr'.result = "True"
            THEN LET rows == {r \in tx.routers : r.ip_address = arg.router_ip}
                 IN  /\ pc' = IF rows # {} THEN "sr_update" ELSE "sr_insert"
                     /\ UNCHANGED <<exc, hist>>
            ELSE /\ exc' = "StoreError"
                 /\ hist' = BodyStoreError(hist)
                 /\ pc' = "exit"
    /\ UNCHANGED <<pool_size, closes, cm, depth, op, arg, ret, outcome, db, tx, db0,
                   interface_map, stats_values, retry_count, idx>>
    /\ UNCHANGED nonDbVars

SrUpdate ==
    /\ pc = "sr_update"
    /\ \E outs \in XrOuts(TRUE) :
         /\ xr' = execute_with_retry(outs)
         /\ IF xr'.result = "True"
            THEN LET row == CHOOSE r \in tx.routers : r.ip_address = arg.router_ip
                 IN  /\ tx' = [tx EXCEPT !.routers = (@ \ {row}) \cup
                                  {[row EXCEPT !.info = arg.router_info]}]
                     /\ ret' = PyInt(row.router_id)
                     /\ pc' = "sr_commit"
                     /\ UNCHANGED <<exc, hist>>
            ELSE /\ exc' = "StoreError"
                 /\ hist' = BodyStoreError(hist)
                 /\ pc' = "exit"
                 /\ UNCHANGED <<tx, ret>>
    /\ UNCHANGED <<pool_size, closes, cm, depth, op, arg, outcome, db, db0,
                   interface_map, stats_values, retry_count, idx>>
    /\ UNCHANGED nonDbVars

SrInsert ==
    /\ pc = "sr_insert"
    /\ \E outs \in XrOuts(TRUE) :
         /\ xr' = execute_with_retry(outs)
         /\ IF xr'.result = "True"
            THEN LET id == NextId({r.router_id : r \in tx.routers})
                 IN  /\ tx' = [tx EXCEPT !.routers = @ \cup
                                  {RouterRow(id, arg.router_ip, arg.router_info)}]
                     /\ ret' = PyInt(id)
                     /\ pc' = "sr_commit"
                     /\ UNCHANGED <<exc, hist>>
            ELSE /\ exc' = "StoreError"
                 /\ hist' = BodyStoreError(hist)
                 /\ pc' = "exit"
                 /\ UNCHANGED <<tx, ret>>
    /\ UNCHANGED <<pool_size, closes, cm, depth, op, arg, outcome, db, db0,
                   interface_map, stats_values, retry_count, idx>>
    /\ UNCHANGED nonDbVars

\* connection.commit(), then the return statement inside the with-body.
Commit(pcs, value) ==
    /\ pc = pcs
    /\ \E ok \in BOOLEAN :
         IF ok
         THEN /\ db' = tx
              /\ ret' = value
              /\ UNCHANGED <<exc, hist>>
         ELSE /\ exc' = "StoreError"
              /\ hist' = BodyStoreError(hist)
              /\ UNCHANGED <<db, ret>>
    /\ pc' = "exit"
    /\ UNCHANGED <<pool_size, closes, cm, depth, op, arg, outcome, tx, db0, xr,
                   interface_map, stats_values, retry_count, idx>>
    /\ UNCHANGED nonDbVars

SrCommit == Commit("sr_commit", ret)

\* ---- db/interface_dao.py save_or_update_interfaces ----

SiNext == IF idx + 1 > Len(arg.interfaces) THEN "si_commit" ELSE "si_select"

\* Mutant: the WHERE clause names the router only.
SiRowsOfRouter == {r \in tx.interfaces : r.router_id = arg.router_id}

\* SELECT interface_id ... WHERE router_id = %s AND ifIndex = %s
SiRows ==
    {r \in tx.interfaces : /\ r.router_id = arg.router_id
                           /\ r.ifIndex = SqlInt(arg.interfaces[idx].ifIndex)}

SiSelect ==
    /\ pc = "si_select"
    /\ \E outs \in XrOuts(TRUE) :
         /\ xr' = execute_with_retry(outs)
         /\ IF xr'.result = "True"
            THEN /\ pc' = IF SiRows # {} THEN "si_update" ELSE "si_insert"
                 /\ UNCHANGED <<exc, hist>>
            ELSE /\ exc' = "StoreError"
                 /\ hist' = BodyStoreError(hist)
                 /\ pc' = "exit"
    /\ UNCHANGED <<pool_size, closes, cm, depth, op, arg, ret, outcome, db, tx, db0,
                   interface_map, stats_values, retry_count, idx>>
    /\ UNCHANGED nonDbVars

SiUpdate ==
    /\ pc = "si_update"
    /\ \E outs \in XrOuts(TRUE) :
         /\ xr' = execute_with_retry(outs)
         /\ IF xr'.result = "True"
            THEN LET row == CHOOSE r \in SiRows : TRUE
                 IN  /\ tx' = [tx EXCEPT !.interfaces = (@ \ {row}) \cup
                                  {[row EXCEPT !.attr = arg.interfaces[idx].attr]}]
                     /\ idx' = idx + 1
                     /\ pc' = SiNext
                     /\ UNCHANGED <<exc, hist>>
            ELSE /\ exc' = "StoreError"
                 /\ hist' = BodyStoreError(hist)
                 /\ pc' = "exit"
                 /\ UNCHANGED <<tx, idx>>
    /\ UNCHANGED <<pool_size, closes, cm, depth, op, arg, ret, outcome, db, db0,
                   interface_map, stats_values, retry_count>>
    /\ UNCHANGED nonDbVars

\* FOREIGN KEY (router_id) REFERENCES routers(router_id)
RouterExists == \E r \in tx.routers : r.router_id = arg.router_id

SiInsert ==
    /\ pc = "si_insert"
    /\ \E outs \in XrOuts(RouterExists) :
         /\ xr' = execute_with_retry(outs)
         /\ IF xr'.result = "True"
            THEN LET id == NextId({r.interface_id : r \in tx.interfaces})
                 IN  /\ tx' = [tx EXCEPT !.interfaces = @ \cup
                                  {InterfaceRow(id, arg.router_id,
                                                SqlInt(arg.interfaces[idx].ifIndex),
                                                arg.interfaces[idx].attr)}]
                     /\ idx' = idx + 1
                     /\ pc' = SiNext
                     /\ UNCHANGED <<exc, hist>>
            ELSE /\ exc' = "StoreError"
                 /\ hist' = BodyStoreError(hist)
                 /\ pc' = "exit"
                 /\ UNCHANGED <<tx, idx>>
    /\ UNCHANGED <<pool_size, closes, cm, depth, op, arg, ret, outcome, db, db0,
                   interface_map, stats_values, retry_count>>
    /\ UNCHANGED nonDbVars

SiCommit == Commit("si_commit", PyTrue)

\* ---- db/interface_dao.py get_interface_id_map (the inner with-statement) ----

\* interface_map[row[1]] = row[0] over the committed rows of the router: the
\* keys are the ints of the BIGINT column.
InterfaceIdMap(rid) ==
    LET rows == {r \in db.interfaces : r.router_id = rid}
    IN  [v \in {PyInt(r.ifIndex) : r \in rows} |->
            (CHOOSE r \in rows : r.ifIndex = v.n).interface_id]

GmSelect ==
    /\ pc = "gm_select"
    /\ \E outs \in XrOuts(TRUE) :
         /\ xr' = execute_with_retry(outs)
         /\ IF xr'.result = "True"
            THEN /\ interface_map' = InterfaceIdMap(arg.router_id)
                 /\ UNCHANGED <<exc, hist>>
            ELSE /\ exc' = "StoreError"
                 /\ hist' = BodyStoreError(hist)
                 /\ UNCHANGED interface_map
    /\ pc' = "exit"
    /\ UNCHANGED <<pool_size, closes, cm, depth, op, arg, ret, outcome, db, tx, db0,
                   stats_values, retry_count, idx>>
    /\ UNCHANGED nonDbVars

\* ---- db/interface_dao.py save_interface_stats_batch ----

\* `from datetime import datetime, time`: the name time is the class
\* datetime.time, which has no attribute sleep.
DaoTimeHasSleep == FALSE

BatchMaxRetries == 3

\* Mutant: the `continue` for an unknown index is missing; the row gets no id.
RECURSIVE BuildStatsValuesNoSkip(_, _, _)
BuildStatsValuesNoSkip(data, map, k) ==
    IF k > Len(data) THEN [error |-> FALSE, rows |-> <<>>]
    ELSE IF ~data[k].numeric /\ data[k].ifIndex \in DOMAIN map
         THEN [error |-> TRUE, rows |-> <<>>]
    ELSE LET rest == BuildStatsValuesNoSkip(data, map, k + 1)
             id == IF data[k].ifIndex \in DOMAIN map THEN map[data[k].ifIndex] ELSE 0
         IN  [error |-> rest.error,
              rows  |-> IF rest.error THEN <<>>
                        ELSE <<[interface_id |-> id, sample |-> k]>> \o rest.rows]

\* The loop that prepares stats_values.  A sample whose ifIndex is not a key
\* of the map is skipped before its values are read; int() of a value that
\* is not numeric raises ValueError.
RECURSIVE BuildStatsValues(_, _, _)
BuildStatsValues(data, map, k) ==
    IF k > Len(data) THEN [error |-> FALSE, rows |-> <<>>]
    ELSE IF data[k].ifIndex \notin DOMAIN map THEN BuildStatsValues(data, map, k + 1)
    ELSE IF ~data[k].numeric THEN [error |-> TRUE, rows |-> <<>>]
    ELSE LET rest == BuildStatsValues(data, map, k + 1)
         IN  [error |-> rest.error,
              rows  |-> IF rest.error THEN <<>>
                        ELSE <<[interface_id |-> map[data[k].ifIndex], sample |-> k]>>
                             \o rest.rows]

\* Mutant: the empty map is reported as success.
SsCheckReturnsTrue ==
    /\ pc = "ss_check"
    /\ IF DOMAIN interface_map = {}
       THEN /\ ret' = PyTrue
            /\ pc' = "exit"
       ELSE /\ pc' = "ss_build"
            /\ UNCHANGED ret
    /\ UNCHANGED <<pool_size, closes, cm, depth, op, arg, exc, outcome, db, tx, db0, xr,
                   interface_map, stats_values, retry_count, idx, hist>>
    /\ UNCHANGED nonDbVars

\* `if not interface_map: return False`
SsCheck ==
    /\ pc = "ss_check"
    /\ IF DOMAIN interface_map = {}
       THEN /\ ret' = PyFalse
            /\ pc' = "exit"
       ELSE /\ pc' = "ss_build"
            /\ UNCHANGED ret
    /\ UNCHANGED <<pool_size, closes, cm, depth, op, arg, exc, outcome, db, tx, db0, xr,
                   interface_map, stats_values, retry_count, idx, hist>>
    /\ UNCHANGED nonDbVars

SsBuild ==
    /\ pc = "ss_build"
    /\ LET b == BuildStatsValues(arg.interfaces_data, interface_map, 1)
       IN  IF b.error
           THEN /\ exc' = "ValueError"
                /\ hist' = [hist EXCEPT !.bodyError = "ValueError"]
                /\ pc' = "exit"
                /\ UNCHANGED <<stats_values, ret>>
           ELSE /\ stats_values' = b.rows
                /\ IF b.rows # <<>>
                   THEN /\ pc' = "ss_insert"
                        /\ UNCHANGED ret
                   ELSE /\ ret' = PyFalse
                        /\ pc' = "exit"
                /\ UNCHANGED <<exc, hist>>
    /\ retry_count' = 0
    /\ UNCHANGED <<pool_size, closes, cm, depth, op, arg, outcome, db, tx, db0, xr,
                   interface_map, idx>>
    /\ UNCHANGED nonDbVars

\* cursor.executemany: one row per element of stats_values, stat_id by
\* AUTO_INCREMENT.
InsertStats(stats, rows) ==
    LET base == NextId({r.stat_id : r \in stats}) - 1
    IN  stats \cup {[stat_id |-> base + k, interface_id |-> rows[k].interface_id,
                     sample |-> rows[k].sample] : k \in DOMAIN rows}

\* One pass of `while retry_count < max_retries and not success`.
SsInsert ==
    /\ pc = "ss_insert"
    /\ retry_count < BatchMaxRetries
    /\ \E o \in {"ok", "executemany_fails", "commit_fails"} :
         LET written == [tx EXCEPT !.stats = InsertStats(@, stats_values)]
         IN  IF o = "ok"
             THEN /\ tx' = written
                  /\ db' = written
                  /\ ret' = PyTrue
                  /\ pc' = "exit"
                  /\ UNCHANGED <<retry_count, exc, hist>>
             ELSE /\ tx' = IF o = "commit_fails" THEN written ELSE tx
                  /\ retry_count' = retry_count + 1
                  /\ UNCHANGED <<db, ret>>
                  /\ IF retry_count + 1 >= BatchMaxRetries
                     THEN /\ exc' = "StoreError"
                          /\ hist' = [BodyStoreError(hist) EXCEPT !.insertFails = @ + 1]
                          /\ pc' = "exit"
                     ELSE IF DaoTimeHasSleep
                          THEN /\ hist' = [hist EXCEPT !.storeError = TRUE,
                                                       !.insertFails = @ + 1]
                               /\ UNCHANGED <<exc, pc>>
                          ELSE /\ exc' = "AttributeError"
                               /\ hist' = [hist EXCEPT !.storeError = TRUE,
                                                       !.insertFails = @ + 1,
                                                       !.bodyError = "AttributeError"]
                               /\ pc' = "exit"
    /\ UNCHANGED <<pool_size, closes, cm, depth, op, arg, outcome, db0, xr,
                   interface_map, stats_values, idx>>
    /\ UNCHANGED nonDbVars

(***************************************************************************)
(* Calls                                                                   *)
(***************************************************************************)
MaxIfs == 2
MaxSamples == 2
MaxPool == 2

RouterIdArgs == {1, 2}

NoArg == [router_ip |-> "", router_info |-> "", router_id |-> 0,
          interfaces |-> <<>>, interfaces_data |-> <<>>]

\* interfaces: Dict keyed by ifIndex, in insertion order
IfDicts ==
    {s \in SeqsUpTo([ifIndex : IfIndexVals, attr : Attrs], MaxIfs) :
        \A i, j \in DOMAIN s : s[i].ifIndex = s[j].ifIndex => i = j}

SampleLists == SeqsUpTo([ifIndex : IfIndexVals, numeric : BOOLEAN], MaxSamples)

CallArgs(o) ==
    IF o = "save_router"
    THEN {[NoArg EXCEPT !.router_ip = ip, !.router_info = info] :
             ip \in Addrs, info \in Attrs}
    ELSE IF o = "save_or_update_interfaces"
    THEN {[NoArg EXCEPT !.router_id = rid, !.interfaces = ifs] :
             rid \in RouterIdArgs, ifs \in IfDicts}
    ELSE {[NoArg EXCEPT !.router_id = rid, !.interfaces_data = d] :
             rid \in RouterIdArgs, d \in SampleLists}

Operations == {"save_router", "save_or_update_interfaces", "save_interface_stats_batch"}

\* A caller invokes one operation of the engine.
Call ==
    /\ pc = "idle"
    /\ \E o \in Operations :
         /\ op' = o
         /\ arg' \in CallArgs(o)
    /\ pc' = "enter"
    /\ UNCHANGED <<pool_size, closes, cm, depth, exc, ret, outcome, db, tx, db0, xr,
                   interface_map, stats_values, retry_count, idx, hist>>
    /\ UNCHANGED nonDbVars

\* The parts of the model a specification does not exercise stay as follows.
UpsertIdle ==
    /\ nWriters = 0
    /\ writers = <<>>
    /\ udb = [routers |-> {}, interfaces |-> {}]
    /\ seen = [routers |-> {}, interfaces |-> {}]
    /\ commitOrder = <<>>

NoRun ==
    [pc |-> "off", n |-> 0, db_setup |-> FALSE, setups |-> 0, setupResult |-> "none",
     stmtFailed |-> FALSE, toolsOk |-> TRUE, listRead |-> FALSE, listEmpty |-> FALSE,
     polled |-> FALSE, exit |-> "none", exc |-> "none", before |-> {}, added |-> {},
     seeded |-> FALSE,
     ext |-> [ran |-> FALSE, lastEnd |-> 0, appended |-> {}],
     prev |-> [valid |-> FALSE, today |-> 0, clean |-> FALSE]]

PartIdle ==
    /\ interval = 0
    /\ today = 0
    /\ tableExists = FALSE
    /\ parts = {}
    /\ run = NoRun

PoolIdle ==
    /\ loopOwner = 0
    /\ ptask = <<>>
    /\ poolFree = 0

PollIdle ==
    /\ sched = 0
    /\ dtask = <<>>

ListIdle == listFile = AbsentFile

NoUtil ==
    [pc |-> "off",
     interface |-> [found |-> FALSE, ifHighSpeed |-> PyNone, ifSpeed |-> PyNone],
     stats |-> <<>>,
     result |-> [raised |-> "none", caught |-> "none", records |-> <<>>]]

UtilIdle == util = NoUtil

NoParse == [pc |-> "off"]

ParseIdle == parse = NoParse

NoBind == [pc |-> "off"]

BindIdle == bind = NoBind

NoSamp == [pc |-> "off"]

SampIdle == samp = NoSamp

NewIdle ==
    /\ ParseIdle
    /\ BindIdle
    /\ SampIdle

LateIdle ==
    /\ PollIdle
    /\ ListIdle
    /\ UtilIdle
    /\ NewIdle

DbIdle ==
    /\ closes = <<>>
    /\ cm = <<NewCm, NewCm>>
    /\ depth = 1
    /\ op = "none"
    /\ arg = NoArg
    /\ pc = "idle"
    /\ exc = "none"
    /\ ret = PyNone
    /\ outcome = [kind |-> "none", val |-> PyNone, exc |-> "none"]
    /\ tx = db
    /\ db0 = db
    /\ xr = NoXr
    /\ interface_map = EmptyMap
    /\ stats_values = <<>>
    /\ retry_count = 0
    /\ idx = 1
    /\ hist = NoHist

OrchIdle ==
    /\ router_ips = <<>>
    /\ cap = 0
    /\ semValue = 0
    /\ task = <<>>
    /\ successful_count = 0
    /\ failed_routers = <<>>
    /\ failedIdx = <<>>
    /\ succIdx = {}
    /\ pcMain = "off"
    /\ handed = NeverHanded
    /\ failedFile = AbsentFile

InitDb ==
    /\ pool_size \in 1..MaxPool
    /\ db \in InitDbs
    /\ DbIdle
    /\ OrchIdle
    /\ UpsertIdle
    /\ PartIdle
    /\ PoolIdle
    /\ LateIdle

NextDb ==
    \/ Call
    \/ GetConnection
    \/ GetConnectionFails
    \/ CmExit
    \/ ReacquireYields
    \/ ReacquireFails
    \/ GcFinalize
    \/ Unwind
    \/ SrSelect
    \/ SrUpdate
    \/ SrInsert
    \/ SrCommit
    \/ SiSelect
    \/ SiUpdate
    \/ SiInsert
    \/ SiCommit
    \/ GmSelect
    \/ SsCheck
    \/ SsBuild
    \/ SsInsert

SpecDb == InitDb /\ [][NextDb]_vars

(***************************************************************************)
(* Specifications                                                          *)
(***************************************************************************)
NextOrch ==
    \/ \E i \in Tasks : SemAcquire(i)
    \/ \E i \in Tasks : PollReturns(i)
    \/ \E i \in Tasks : PollRaises(i)
    \/ GatherReturns
    \/ GatherRaises
    \/ SaveFailed
    \/ \E i \in Tasks : CancelTask(i)

InitOrch ==
    /\ InitOrchVars
    /\ pool_size = 1
    /\ db = EmptyDb
    /\ DbIdle
    /\ UpsertIdle
    /\ PartIdle
    /\ PoolIdle
    /\ LateIdle

SpecOrch == InitOrch /\ [][NextOrch]_vars

(***************************************************************************)
(* Concurrent writers: save_router and save_or_update_interfaces run by    *)
(* one or two processes against the same store.  Each call is one          *)
(* transaction (autocommit False); the store is InnoDB: a plain SELECT     *)
(* reads the transaction's snapshot, UPDATE and INSERT act on the current  *)
(* rows, wait for the row and index locks of other open transactions, and  *)
(* INSERT fails on a UNIQUE INDEX or FOREIGN KEY violation.                *)
(***************************************************************************)
MaxUpserts == 2

EmptyUdb == [routers |-> {}, interfaces |-> {}]

\* Stores the writers may find.
InitUdbs ==
    { EmptyUdb,
      [routers |-> {RouterRow(1, "10.0.0.1", "x")}, interfaces |-> {}],
      [routers |-> {RouterRow(1, "10.0.0.1", "x")},
       interfaces |-> {InterfaceRow(1, 1, 1, "x"), InterfaceRow(2, 1, 2, "x")}] }

UpsertRouterArgs ==
    {[router_ip |-> ip, router_info |-> info, router_id |-> 0, interfaces |-> <<>>] :
        ip \in Addrs, info \in Attrs}

\* interfaces: Dict keyed by the ifIndex text of the walk, in insertion order
UpsertIfArgs ==
    {[router_ip |-> "", router_info |-> "", router_id |-> 1, interfaces |-> ifs] :
        ifs \in { <<[ifIndex |-> PyStr(1), attr |-> "x"]>>,
                  <<[ifIndex |-> PyStr(1), attr |-> "y"]>>,
                  <<[ifIndex |-> PyStr(1), attr |-> "y"], [ifIndex |-> PyStr(2), attr |-> "y"]>>,
                  <<[ifIndex |-> PyStr(2), attr |-> "x"], [ifIndex |-> PyStr(1), attr |-> "x"]>> }}

UpsertArgs(o) == IF o = "save_router" THEN UpsertRouterArgs ELSE UpsertIfArgs

NoWriter ==
    [pc |-> "idle", op |-> "none",
     arg |-> [router_ip |-> "", router_info |-> "", router_id |-> 0, interfaces |-> <<>>],
     i |-> 1, hasSnap |-> FALSE, snap |-> EmptyUdb, ins |-> EmptyUdb, upd |-> EmptyUdb,
     rowid |-> 0, wait |-> FALSE, calls |-> 0, why |-> "none", before |-> EmptyUdb,
     result |-> PyNone]

Writers == DOMAIN writers

\* The table, key, id and attributes of a row or of a writer's current target.
UKey(t, r) == IF t = "routers" THEN <<r.ip_address>> ELSE <<r.router_id, r.ifIndex>>

UId(t, r) == IF t = "routers" THEN r.router_id ELSE r.interface_id

UAttr(t, r) == IF t = "routers" THEN r.info ELSE r.attr

WTable(w) == IF writers[w].op = "save_router" THEN "routers" ELSE "interfaces"

TargetKey(o, a, j) ==
    IF o = "save_router" THEN <<a.router_ip>>
    ELSE <<a.router_id, SqlInt(a.interfaces[j].ifIndex)>>

TargetAttr(o, a, j) ==
    IF o = "save_router" THEN a.router_info ELSE a.interfaces[j].attr

Targets(o, a) == IF o = "save_router" THEN {1} ELSE DOMAIN a.interfaces

WKey(w) == TargetKey(writers[w].op, writers[w].arg, writers[w].i)

WAttr(w) == TargetAttr(writers[w].op, writers[w].arg, writers[w].i)

\* Mutant: the UPDATE statement leaves the stored attributes as they are.
KeepsOldAttr(old, new) == old

\* UPDATE ... SET <every attribute> = %s
UpdatedAttr(old, new) == new

WithAttr(t, r, a) ==
    IF t = "routers" THEN [r EXCEPT !.info = UpdatedAttr(@, a)]
    ELSE [r EXCEPT !.attr = UpdatedAttr(@, a)]

\* Calls made so far, by all writers.
TotalCalls ==
    IF nWriters = 1 THEN writers[1].calls ELSE writers[1].calls + writers[2].calls

\* A caller invokes save_router or save_or_update_interfaces.
UpsertCall(w) ==
    /\ writers[w].pc \in {"idle", "returned", "failed"}
    /\ TotalCalls < MaxUpserts
    /\ \E o \in {"save_router", "save_or_update_interfaces"} :
         \E a \in UpsertArgs(o) :
            writers' = [writers EXCEPT ![w] =
                          [NoWriter EXCEPT !.pc = "select", !.op = o, !.arg = a,
                                           !.calls = writers[w].calls + 1,
                                           !.before = udb]]
    /\ UNCHANGED <<nWriters, udb, seen, commitOrder>>
    /\ UNCHANGED <<orchVars, dbVars, partVars, poolVars, lateVars>>

\* The statement failed with Error on every attempt of execute_with_retry, or
\* commit failed: the call is over and the connection, given back to the
\* pool, rolls the transaction back.
FailedWriter(w, why) ==
    [writers[w] EXCEPT !.pc = "failed", !.why = why, !.ins = EmptyUdb,
                       !.upd = EmptyUdb, !.wait = FALSE,
                       !.result = IF writers[w].op = "save_router" THEN PyNone ELSE PyFalse]

\* `SELECT <id> ... WHERE <key>` and cursor.fetchone()
UpsertSelect(w) ==
    /\ writers[w].pc = "select"
    /\ \E ok \in BOOLEAN :
         IF ok
         THEN LET t == WTable(w)
                  snap == IF writers[w].hasSnap THEN writers[w].snap ELSE udb
                  rows == {r \in snap[t] \cup writers[w].ins[t] : UKey(t, r) = WKey(w)}
              IN  writers' = [writers EXCEPT ![w] =
                     [@ EXCEPT !.hasSnap = TRUE, !.snap = snap,
                               !.pc = IF rows # {} THEN "update" ELSE "insert",
                               !.rowid = IF rows # {} THEN UId(t, CHOOSE r \in rows : TRUE)
                                         ELSE 0]]
         ELSE writers' = [writers EXCEPT ![w] = FailedWriter(w, "transient")]
    /\ UNCHANGED <<nWriters, udb, seen, commitOrder>>
    /\ UNCHANGED <<orchVars, dbVars, partVars, poolVars, lateVars>>

\* After the statement of one target: the next interface, or commit.
AfterTarget(w, wr) ==
    IF writers[w].op = "save_or_update_interfaces"
       /\ writers[w].i + 1 <= Len(writers[w].arg.interfaces)
    THEN [wr EXCEPT !.pc = "select", !.i = @ + 1, !.wait = FALSE]
    ELSE [wr EXCEPT !.pc = "commit", !.wait = FALSE]

\* The statement needs a lock that the open transactions in `blockers`
\* hold: it waits, unless one of them is itself waiting (deadlock, Error).
LockWait(w, blockers) ==
    IF \E u \in blockers : writers[u].wait
    THEN FailedWriter(w, "deadlock")
    ELSE [writers[w] EXCEPT !.wait = TRUE]

\* `UPDATE ... WHERE <id> = %s`
UpsertUpdate(w) ==
    /\ writers[w].pc = "update"
    /\ \E ok \in BOOLEAN :
         LET t == WTable(w)
             id == writers[w].rowid
             blockers == {u \in Writers \ {w} : \E e \in writers[u].upd[t] : e.id = id}
             own == {r \in writers[w].ins[t] : UId(t, r) = id}
         IN  IF ~ok
             THEN writers' = [writers EXCEPT ![w] = FailedWriter(w, "transient")]
             ELSE IF blockers # {}
             THEN writers' = [writers EXCEPT ![w] = LockWait(w, blockers)]
             ELSE IF own # {}
             THEN writers' = [writers EXCEPT ![w] = AfterTarget(w,
                     [@ EXCEPT !.ins[t] = (@ \ own) \cup {WithAttr(t, r, WAttr(w)) : r \in own}])]
             ELSE writers' = [writers EXCEPT ![w] = AfterTarget(w,
                     [@ EXCEPT !.upd[t] = {e \in @ : e.id # id}
                                          \cup {[id |-> id, attr |-> WAttr(w)]}])]
    /\ UNCHANGED <<nWriters, udb, seen, commitOrder>>
    /\ UNCHANGED <<orchVars, dbVars, partVars, poolVars, lateVars>>

\* Every id of a table, committed or given to an open transaction.
IdsInUse(t) ==
    {UId(t, r) : r \in udb[t]} \cup
    UNION {{UId(t, r) : r \in writers[u].ins[t]} : u \in Writers}

NewRow(w, id) ==
    IF writers[w].op = "save_router"
    THEN RouterRow(id, writers[w].arg.router_ip, writers[w].arg.router_info)
    ELSE InterfaceRow(id, writers[w].arg.router_id,
                      SqlInt(writers[w].arg.interfaces[writers[w].i].ifIndex),
                      writers[w].arg.interfaces[writers[w].i].attr)

\* `INSERT INTO ...` and cursor.lastrowid
UpsertInsert(w) ==
    /\ writers[w].pc = "insert"
    /\ \E ok \in BOOLEAN :
         LET t == WTable(w)
             blockers ==
                {u \in Writers \ {w} :
                    \/ \E r \in writers[u].ins[t] : UKey(t, r) = WKey(w)
                    \/ /\ t = "interfaces"
                       /\ \E r \in writers[u].ins.routers :
                             r.router_id = writers[w].arg.router_id}
             duplicate == \E r \in udb[t] : UKey(t, r) = WKey(w)
             orphan == /\ t = "interfaces"
                       /\ ~\E r \in udb.routers : r.router_id = writers[w].arg.router_id
             id == NextId(IdsInUse(t))
         IN  IF ~ok
             THEN writers' = [writers EXCEPT ![w] = FailedWriter(w, "transient")]
             ELSE IF blockers # {}
             THEN writers' = [writers EXCEPT ![w] = LockWait(w, blockers)]
             ELSE IF duplicate
             THEN writers' = [writers EXCEPT ![w] = FailedWriter(w, "duplicate")]
             ELSE IF orphan
             THEN writers' = [writers EXCEPT ![w] = FailedWriter(w, "foreign_key")]
             ELSE writers' = [writers EXCEPT ![w] = AfterTarget(w,
                     [@ EXCEPT !.ins[t] = @ \cup {NewRow(w, id)}, !.rowid = id])]
    /\ UNCHANGED <<nWriters, udb, seen, commitOrder>>
    /\ UNCHANGED <<orchVars, dbVars, partVars, poolVars, lateVars>>

\* The committed rows after the writer's transaction takes effect.
Committed(w, t) ==
    {IF \E e \in writers[w].upd[t] : e.id = UId(t, r)
     THEN WithAttr(t, r, (CHOOSE e \in writers[w].upd[t] : e.id = UId(t, r)).attr)
     ELSE r : r \in udb[t]} \cup writers[w].ins[t]

\* connection.commit() and the return statement.
UpsertCommit(w) ==
    /\ writers[w].pc = "commit"
    /\ \E ok \in BOOLEAN :
         IF ok
         THEN LET after == [routers |-> Committed(w, "routers"),
                            interfaces |-> Committed(w, "interfaces")]
              IN  /\ udb' = after
                  /\ seen' = [t \in {"routers", "interfaces"} |->
                                seen[t] \cup {<<UKey(t, r), UId(t, r)>> : r \in after[t]}]
                  /\ commitOrder' = Append(commitOrder, w)
                  /\ writers' = [writers EXCEPT ![w] =
                        [@ EXCEPT !.pc = "returned", !.ins = EmptyUdb, !.upd = EmptyUdb,
                                  !.result = IF writers[w].op = "save_router"
                                             THEN PyInt(writers[w].rowid) ELSE PyTrue]]
         ELSE /\ writers' = [writers EXCEPT ![w] = FailedWriter(w, "transient")]
              /\ UNCHANGED <<udb, seen, commitOrder>>
    /\ UNCHANGED nWriters
    /\ UNCHANGED <<orchVars, dbVars, partVars, poolVars, lateVars>>

InitUpsert ==
    /\ nWriters \in 1..2
    /\ writers = [w \in 1..nWriters |-> NoWriter]
    /\ udb \in InitUdbs
    /\ seen = [t \in {"routers", "interfaces"} |-> {<<UKey(t, r), UId(t, r)>> : r \in udb[t]}]
    /\ commitOrder = <<>>
    /\ pool_size = 1
    /\ db = EmptyDb
    /\ DbIdle
    /\ OrchIdle
    /\ PartIdle
    /\ PoolIdle
    /\ LateIdle

NextUpsert ==
    \/ \E w \in Writers : UpsertCall(w)
    \/ \E w \in Writers : UpsertSelect(w)
    \/ \E w \in Writers : UpsertUpdate(w)
    \/ \E w \in Writers : UpsertInsert(w)
    \/ \E w \in Writers : UpsertCommit(w)

SpecUpsert == InitUpsert /\ [][NextUpsert]_vars

(***************************************************************************)
(* Partition Maintainer and the run of main: db/schema.py                  *)
(* create_database_tables, create_time_partitions, maintain_partitions,    *)
(* called once by main.py main before any polling.  Dates are day numbers; *)
(* a partition is [name |-> its start date (p_YYYYMMDD), lessThan |-> the  *)
(* date of its VALUES LESS THAN clause].  DDL statements commit at once.   *)
(***************************************************************************)
MaxRuns == 3
MaxDay == 5
MaxInterval == 2

\* num_partitions: int = 6
NumPartitions == 6

\* What cursor.fetchone()[0] is for `SELECT FROM_DAYS(...)`: the driver's
\* converter decides (a DATE column is a datetime.date under the default
\* converter, text under a raw one).
FromDaysResultTypes == {"date", "str"}

Partition(start, end) == [name |-> start, lessThan |-> end]

PartNames(ps) == {q.name : q \in ps}

\* ORDER BY PARTITION_DESCRIPTION DESC LIMIT 1
LastPartitionDate(ps) == CHOOSE e \in {q.lessThan : q \in ps} : \A q \in ps : q.lessThan <= e

\* The loop of create_time_partitions, up to (not including) iteration n:
\* the partition of iteration i is added unless its name exists.
RECURSIVE CreateTimePartitions(_, _, _, _, _)
CreateTimePartitions(ps, current_date, interval_days, i, n) ==
    IF i >= n THEN ps
    ELSE LET partition_start == current_date + i * interval_days
             partition_end == current_date + (i + 1) * interval_days
         IN  CreateTimePartitions(
                IF partition_start \in PartNames(ps) THEN ps
                ELSE ps \cup {Partition(partition_start, partition_end)},
                current_date, interval_days, i + 1, n)

\* Mutant: the new partition starts at the current date.
ExtendFromToday(last_partition_date) == today

\* new_partition_start = last_partition_date
NewPartitionStart(last_partition_date) == last_partition_date

\* `if days_ahead < interval_days * 3`
NeedsExtension(last_partition_date) ==
    last_partition_date - today < interval * 3

\* The process is started (on the same day or later).
RunStart ==
    /\ run.pc \in {"off", "exited"}
    /\ run.n < MaxRuns
    /\ today' \in today..MaxDay
    /\ \E flag \in BOOLEAN :
         run' = [NoRun EXCEPT !.pc = "tools", !.n = run.n + 1, !.db_setup = flag,
                              !.before = parts,
                              !.prev = [valid |-> run.n > 0, today |-> today,
                                        clean |-> /\ run.setupResult = "True"
                                                  /\ ~run.stmtFailed]]
    /\ UNCHANGED <<interval, tableExists, parts>>
    /\ UNCHANGED <<orchVars, dbVars, upsertVars, poolVars, lateVars>>

\* `if not await check_snmp_tools_installed(): sys.exit(1)`
CheckTools ==
    /\ run.pc = "tools"
    /\ \E ok \in BOOLEAN :
         run' = IF ok THEN [run EXCEPT !.pc = "setup"]
                ELSE [run EXCEPT !.pc = "exited", !.toolsOk = FALSE, !.exit = "nonzero"]
    /\ UNCHANGED <<interval, today, tableExists, parts>>
    /\ UNCHANGED <<orchVars, dbVars, upsertVars, poolVars, lateVars>>

\* An Error raised inside the with-statement of create_database_tables after
\* the retries of the statement: db_connection catches it and loops; either
\* it yields again (RuntimeError leaves create_database_tables and main), or
\* get_connection fails up to the ceiling (Error, create_database_tables
\* returns False and main calls sys.exit(1)).
SetupFailed(r) ==
    {[r EXCEPT !.pc = "exited", !.stmtFailed = TRUE, !.setupResult = "raised",
               !.exc = "RuntimeError", !.exit = "nonzero"],
     [r EXCEPT !.pc = "exited", !.stmtFailed = TRUE, !.setupResult = "False",
               !.exit = "nonzero"]}

\* create_database_tables up to the creation of interface_stats.
CreateTables ==
    /\ run.pc = "setup"
    /\ \E ok \in BOOLEAN :
         IF ok
         THEN /\ tableExists' = TRUE
              /\ run' = [run EXCEPT !.setups = @ + 1,
                                    !.pc = IF interval > 0
                                           THEN (IF tableExists THEN "maintain" ELSE "seed")
                                           ELSE "setup_commit"]
         ELSE /\ run' \in SetupFailed([run EXCEPT !.setups = @ + 1])
              /\ UNCHANGED tableExists
    /\ UNCHANGED <<interval, today, parts>>
    /\ UNCHANGED <<orchVars, dbVars, upsertVars, poolVars, lateVars>>

\* create_time_partitions called for the table just created: n iterations
\* complete; fewer than num_partitions when a statement fails.
Seed ==
    /\ run.pc = "seed"
    /\ \E n \in 0..NumPartitions :
         LET ps == CreateTimePartitions(parts, today, interval, 0, n)
         IN  /\ parts' = ps
             /\ IF n = NumPartitions
                THEN run' = [run EXCEPT !.pc = "maintain", !.seeded = TRUE,
                                        !.added = @ \cup (ps \ parts)]
                ELSE run' \in SetupFailed([run EXCEPT !.added = @ \cup (ps \ parts)])
    /\ UNCHANGED <<interval, today, tableExists>>
    /\ UNCHANGED <<orchVars, dbVars, upsertVars, poolVars, lateVars>>

\* maintain_partitions.  An Error of one of its statements is caught by its
\* own `except Error` and logged; any other exception leaves it, the
\* with-statement, create_database_tables and main.
Maintain ==
    /\ run.pc = "maintain"
    /\ IF parts # {}
       THEN \E ok \in BOOLEAN, ty \in FromDaysResultTypes :
               LET last == LastPartitionDate(parts)
                   new == Partition(NewPartitionStart(last), NewPartitionStart(last) + interval)
                   ext == [ran |-> TRUE, lastEnd |-> last, appended |-> {}]
               IN  IF ty = "date"
                   THEN \* datetime.strptime(<datetime.date>, '%Y-%m-%d')
                        /\ run' = [run EXCEPT !.pc = "exited", !.exc = "TypeError",
                                              !.setupResult = "raised", !.exit = "nonzero",
                                              !.ext = ext]
                        /\ UNCHANGED parts
                   ELSE IF NeedsExtension(last) /\ new.name \notin PartNames(parts)
                   THEN IF ok
                        THEN /\ parts' = parts \cup {new}
                             /\ run' = [run EXCEPT !.pc = "setup_commit",
                                                   !.added = @ \cup {new},
                                                   !.ext = [ext EXCEPT !.appended = {new}]]
                        ELSE /\ run' = [run EXCEPT !.pc = "setup_commit",
                                                   !.stmtFailed = TRUE]
                             /\ UNCHANGED parts
                   ELSE IF ok
                        THEN /\ run' = [run EXCEPT !.pc = "setup_commit", !.ext = ext]
                             /\ UNCHANGED parts
                        ELSE /\ run' = [run EXCEPT !.pc = "setup_commit",
                                                   !.stmtFailed = TRUE]
                             /\ UNCHANGED parts
       ELSE \E n \in 0..NumPartitions :
               LET ps == CreateTimePartitions(parts, today, interval, 0, n)
               IN  /\ parts' = ps
                   /\ run' = [run EXCEPT !.pc = "setup_commit",
                                         !.added = @ \cup (ps \ parts),
                                         !.seeded = (n = NumPartitions),
                                         !.stmtFailed = (n < NumPartitions)]
    /\ UNCHANGED <<interval, today, tableExists>>
    /\ UNCHANGED <<orchVars, dbVars, upsertVars, poolVars, lateVars>>

\* connection.commit() and `return True`
SetupCommit ==
    /\ run.pc = "setup_commit"
    /\ \E ok \in BOOLEAN :
         IF ok THEN run' = [run EXCEPT !.pc = "after_setup", !.setupResult = "True"]
         ELSE run' \in SetupFailed(run)
    /\ UNCHANGED <<interval, today, tableExists, parts>>
    /\ UNCHANGED <<orchVars, dbVars, upsertVars, poolVars, lateVars>>

\* `if args.db_setup: return`
AfterSetup ==
    /\ run.pc = "after_setup"
    /\ run' = IF run.db_setup THEN [run EXCEPT !.pc = "exited", !.exit = "zero"]
              ELSE [run EXCEPT !.pc = "read"]
    /\ UNCHANGED <<interval, today, tableExists, parts>>
    /\ UNCHANGED <<orchVars, dbVars, upsertVars, poolVars, lateVars>>

\* read_router_ips and `if not router_ips: sys.exit(1)`
ReadRouterIps ==
    /\ run.pc = "read"
    /\ \E ips \in SeqsUpTo(Addrs, 1) :
         run' = IF ips = <<>>
                THEN [run EXCEPT !.pc = "exited", !.listRead = TRUE, !.listEmpty = TRUE,
                                 !.exit = "nonzero"]
                ELSE [run EXCEPT !.pc = "poll", !.listRead = TRUE]
    /\ UNCHANGED <<interval, today, tableExists, parts>>
    /\ UNCHANGED <<orchVars, dbVars, upsertVars, poolVars, lateVars>>

\* `await process_routers(router_ips, config)`: it returns the counts, or raises.
Poll ==
    /\ run.pc = "poll"
    /\ \E raised \in BOOLEAN :
         run' = [run EXCEPT !.pc = "exited", !.polled = TRUE,
                            !.exit = IF raised THEN "nonzero" ELSE "zero"]
    /\ UNCHANGED <<interval, today, tableExists, parts>>
    /\ UNCHANGED <<orchVars, dbVars, upsertVars, poolVars, lateVars>>

InitRun ==
    /\ interval \in 0..MaxInterval
    /\ today = 0
    /\ tableExists = FALSE
    /\ parts = {}
    /\ run = NoRun
    /\ pool_size = 1
    /\ db = EmptyDb
    /\ DbIdle
    /\ OrchIdle
    /\ UpsertIdle
    /\ PoolIdle
    /\ LateIdle

NextRun ==
    \/ RunStart
    \/ CheckTools
    \/ CreateTables
    \/ Seed
    \/ Maintain
    \/ SetupCommit
    \/ AfterSetup
    \/ ReadRouterIps
    \/ Poll

SpecRun == InitRun /\ [][NextRun]_vars

(***************************************************************************)
(* The connection pool under the event loop.  The polling tasks are        *)
(* coroutines of one asyncio loop, so one thread runs them all: a task     *)
(* runs from one await that suspends to the next.  The DAO operations are  *)
(* `async def` but contain no suspending await: db_connection,             *)
(* execute_with_retry and the driver calls are synchronous, and so is      *)
(* time.sleep in the retry loop of db_connection.                          *)
(***************************************************************************)
MaxDaoCalls == 2

PoolTasks == {1, 2}

NoPTask ==
    [pc |-> "ready", op |-> "none", depth |-> 0, held |-> 0, rc |-> 0, sleeps |-> 0,
     calls |-> 0, exhausted |-> FALSE, inner |-> "none", result |-> "none"]

\* The event loop resumes a task that is ready; the task calls a DAO operation.
TaskResume(t) ==
    /\ loopOwner = 0
    /\ ptask[t].pc = "ready"
    /\ ptask[t].calls < MaxDaoCalls
    /\ \E o \in {"save_router", "save_interface_stats_batch"} :
         ptask' = [ptask EXCEPT ![t] =
                      [NoPTask EXCEPT !.pc = "acquire", !.op = o, !.depth = 1,
                                      !.calls = ptask[t].calls + 1,
                                      !.inner = IF o = "save_interface_stats_batch"
                                                THEN "todo" ELSE "none"]]
    /\ loopOwner' = t
    /\ UNCHANGED poolFree
    /\ UNCHANGED <<orchVars, dbVars, upsertVars, partVars, lateVars>>

\* connection_pool.get_connection(): a free connection, or PoolError at once
\* when the pool is exhausted; `except Error` counts the attempt and raises
\* at the ceiling, else goes to time.sleep(0.5).
PoolGet(t) ==
    /\ loopOwner = t
    /\ ptask[t].pc = "acquire"
    /\ IF poolFree > 0
       THEN /\ poolFree' = poolFree - 1
            /\ ptask' = [ptask EXCEPT ![t] = [@ EXCEPT !.pc = "body", !.held = @ + 1]]
       ELSE /\ ptask' = [ptask EXCEPT ![t] =
                           [@ EXCEPT !.rc = @ + 1, !.exhausted = TRUE,
                                     !.pc = IF ptask[t].rc + 1 >= CmMaxRetries
                                            THEN "raise" ELSE "sleep"]]
            /\ UNCHANGED poolFree
    /\ UNCHANGED loopOwner
    /\ UNCHANGED <<orchVars, dbVars, upsertVars, partVars, lateVars>>

\* time.sleep(0.5) returns: the thread was held all along.
PoolSleepOver(t) ==
    /\ loopOwner = t
    /\ ptask[t].pc = "sleep"
    /\ ptask' = [ptask EXCEPT ![t] = [@ EXCEPT !.pc = "acquire", !.sleeps = @ + 1]]
    /\ UNCHANGED <<loopOwner, poolFree>>
    /\ UNCHANGED <<orchVars, dbVars, upsertVars, partVars, lateVars>>

\* The with-body.  save_interface_stats_batch calls get_interface_id_map,
\* which opens its own db_connection, before it writes.
PoolBody(t) ==
    /\ loopOwner = t
    /\ ptask[t].pc = "body"
    /\ ptask' = [ptask EXCEPT ![t] =
                    IF ptask[t].depth = 1 /\ ptask[t].inner = "todo"
                    THEN [@ EXCEPT !.pc = "acquire", !.depth = 2, !.rc = 0, !.sleeps = 0]
                    ELSE [@ EXCEPT !.pc = "release"]]
    /\ UNCHANGED <<loopOwner, poolFree>>
    /\ UNCHANGED <<orchVars, dbVars, upsertVars, partVars, lateVars>>

\* The finally clause: connection.close().  After the outer one the
\* operation returns and the task goes on to its next suspending await.
PoolRelease(t) ==
    /\ loopOwner = t
    /\ ptask[t].pc = "release"
    /\ poolFree' = poolFree + 1
    /\ IF ptask[t].depth = 2
       THEN /\ ptask' = [ptask EXCEPT ![t] =
                           [@ EXCEPT !.pc = "body", !.depth = 1, !.held = @ - 1,
                                     !.inner = "done"]]
            /\ UNCHANGED loopOwner
       ELSE /\ ptask' = [ptask EXCEPT ![t] =
                           [@ EXCEPT !.pc = "ready", !.depth = 0, !.held = @ - 1,
                                     !.result = "returned"]]
            /\ loopOwner' = 0
    /\ UNCHANGED <<orchVars, dbVars, upsertVars, partVars, lateVars>>

\* db_connection raised the Error of its last attempt.  In
\* get_interface_id_map `except Error` returns {} and the outer body goes on;
\* in the operation itself `except Error` returns its error value.
PoolRaise(t) ==
    /\ loopOwner = t
    /\ ptask[t].pc = "raise"
    /\ IF ptask[t].depth = 2
       THEN /\ ptask' = [ptask EXCEPT ![t] =
                           [@ EXCEPT !.pc = "body", !.depth = 1, !.inner = "failed"]]
            /\ UNCHANGED loopOwner
       ELSE /\ ptask' = [ptask EXCEPT ![t] =
                           [@ EXCEPT !.pc = "ready", !.depth = 0, !.result = "failed"]]
            /\ loopOwner' = 0
    /\ UNCHANGED poolFree
    /\ UNCHANGED <<orchVars, dbVars, upsertVars, partVars, lateVars>>

InitPool ==
    /\ pool_size \in 1..MaxPool
    /\ poolFree = pool_size
    /\ loopOwner = 0
    /\ ptask = [t \in PoolTasks |-> NoPTask]
    /\ db = EmptyDb
    /\ DbIdle
    /\ OrchIdle
    /\ UpsertIdle
    /\ PartIdle
    /\ LateIdle

NextPool ==
    \/ \E t \in PoolTasks : TaskResume(t)
    \/ \E t \in PoolTasks : PoolGet(t)
    \/ \E t \in PoolTasks : PoolSleepOver(t)
    \/ \E t \in PoolTasks : PoolBody(t)
    \/ \E t \in PoolTasks : PoolRelease(t)
    \/ \E t \in PoolTasks : PoolRaise(t)

SpecPool == InitPool /\ [][NextPool]_vars

(***************************************************************************)
(* Device poll tasks on the event loop: src/snmp/client.py, followed by    *)
(* the store calls of src/db/connection.py                                 *)
(***************************************************************************)
PollTasks == {1, 2}

\* Table indices a device answers with.
Indices == {"1", "2"}

\* A str that is not the decimal text of a number.
PyText == [tag |-> "text", n |-> 0]

\* OID_CONSTANTS, in the order of the dictionary.
OidNames ==
    <<"sysName", "sysDescr", "sysUpTime", "sysLocation", "sysContact", "sysObjectID",
      "ipAddress", "ipAdEntIfIndex",
      "ifIndex", "ifDescr", "ifName", "ifType", "ifMTU", "ifSpeed", "ifPhysAddress",
      "ifAdminStatus", "ifOperStatus",
      "ifInOctets", "ifOutOctets", "ifHCInOctets", "ifHCOutOctets",
      "ifHighSpeed", "ifAlias">>

\* name.startswith("sys")
IsSysName(name) ==
    name \in {"sysName", "sysDescr", "sysUpTime", "sysLocation", "sysContact",
              "sysObjectID"}

\* The names get_device_info queries, one snmp_get each.
SysOids == SelectSeq(OidNames, IsSysName)

\* `if name in ["ifIndex", "ifType"] or name.startswith("sys"): continue`
IsAttrName(name) == ~(name \in {"ifIndex", "ifType"} \/ IsSysName(name))

\* The names get_monitored_interfaces walks after the type walk.
AttrOids == SelectSeq(OidNames, IsAttrName)

\* The two walks of get_ip_to_interface_mapping.
IpOids == <<"ipAddress", "ipAdEntIfIndex">>

\* The allow-list of monitored type codes (models/interface.py does not
\* define it): 6 is ethernetCsmacd.
INTERFACE_TYPES_TO_MONITOR == {6}

\* ---- Protocol Gateway: snmp_get, snmp_walk ----
\* How the snmpget / snmpwalk child process can end.
TransportOutcomes ==
    {"ok", "exit_nonzero", "spawn_oserror", "spawn_not_found", "no_such_object",
     "no_value", "undecodable"}

\* The outcomes in which the transport failed: no child process, a
\* non-zero exit status, or output that cannot be read.
TransportFailed(tr) ==
    tr \in {"exit_nonzero", "spawn_oserror", "spawn_not_found", "undecodable"}

\* Classes derived from Exception that the body can raise.
ExceptionClasses ==
    {"OSError", "FileNotFoundError", "UnicodeDecodeError", "TypeError",
     "ZeroDivisionError"}

GwReturn(v, m) == [raised |-> "none", val |-> v, map |-> m]

GwRaise(e) == [raised |-> e, val |-> PyNone, map |-> EmptyMap]

\* Mutant: the handler of check_snmp_tools_installed.
CaughtIfFileNotFound(e) == e = "FileNotFoundError"

\* `except Exception as e:`
ExceptException(e) == e \in ExceptionClasses

\* The try body of snmp_get; value is what parse_snmp_value makes of the
\* text after '='.
SnmpGetBody(tr, value) ==
    CASE tr = "spawn_oserror"   -> GwRaise("OSError")
      [] tr = "spawn_not_found" -> GwRaise("FileNotFoundError")
      [] tr = "undecodable"     -> GwRaise("UnicodeDecodeError")
      [] tr = "exit_nonzero"    -> GwReturn(PyNone, EmptyMap)
      [] tr = "no_such_object"  -> GwReturn(PyNone, EmptyMap)
      [] tr = "no_value"        -> GwReturn(PyText, EmptyMap)
      [] OTHER                  -> GwReturn(value, EmptyMap)

snmp_get(tr, value) ==
    LET r == SnmpGetBody(tr, value)
    IN  IF r.raised # "none" /\ ExceptException(r.raised)
        THEN GwReturn(PyNone, EmptyMap)
        ELSE r

\* The line "<oid> = No Such Object available on this agent at this OID",
\* as parse_snmp_walk_response reads it: the last segment of the OID as key.
NoSuchObjectMap == [i \in {"3"} |-> PyText]

\* The try body of snmp_walk; table is what parse_snmp_walk_response makes
\* of the lines that hold a '='.
SnmpWalkBody(tr, table) ==
    CASE tr = "spawn_oserror"   -> GwRaise("OSError")
      [] tr = "spawn_not_found" -> GwRaise("FileNotFoundError")
      [] tr = "undecodable"     -> GwRaise("UnicodeDecodeError")
      [] tr = "exit_nonzero"    -> GwReturn(PyNone, EmptyMap)
      [] tr = "no_such_object"  -> GwReturn(PyNone, NoSuchObjectMap)
      [] tr = "no_value"        -> GwReturn(PyNone, EmptyMap)
      [] OTHER                  -> GwReturn(PyNone, table)

snmp_walk(tr, table) ==
    LET r == SnmpWalkBody(tr, table)
    IN  IF r.raised # "none" /\ ExceptException(r.raised)
        THEN GwReturn(PyNone, EmptyMap)
        ELSE r

\* ---- Interface Assembler: get_monitored_interfaces ----
\* Type codes as parse_snmp_value returns them: 6, 24 (softwareLoopback),
\* or the text of an enumeration label.
TypeValues == {PyInt(6), PyInt(24), PyText}

TypeTables == UNION {[S -> TypeValues] : S \in SUBSET Indices}

AttrTables == {[i \in {"1"} |-> PyInt(1)]}

\* int(if_type) inside `try ... except (ValueError, TypeError)`
IntOf(v) ==
    IF v.tag \in {"int", "str"} THEN [ok |-> TRUE, n |-> v.n] ELSE [ok |-> FALSE, n |-> 0]

\* The loop that fills monitored_indices.
MonitoredIndices(if_types) ==
    {i \in DOMAIN if_types :
        IntOf(if_types[i]).ok /\ IntOf(if_types[i]).n \in INTERFACE_TYPES_TO_MONITOR}

\* Mutant: only the empty walk returns early.
ReturnsEarlyOnlyIfEmpty(if_types) == if_types = EmptyMap

\* `if not if_types: return {}` and `if not monitored_indices: return {}`
ReturnsEarly(if_types) ==
    \/ if_types = EmptyMap
    \/ MonitoredIndices(if_types) = {}

\* ---- The poll task ----
NoGw == [op |-> "none", failed |-> FALSE, raised |-> "none", val |-> PyNone,
         map |-> EmptyMap]

NoDTask ==
    [pc |-> "ready", fn |-> "get_device_info", k |-> 1, outstanding |-> 0,
     last |-> "none", if_types |-> EmptyMap, monitored_indices |-> {},
     walked |-> FALSE, afterTypes |-> FALSE,
     result |-> "none", gw |-> NoGw, rc |-> 0, xc |-> 0, ended |-> "none"]

ClientFns == {"get_device_info", "get_monitored_interfaces",
              "get_ip_to_interface_mapping"}

\* The Device Poller: identity attributes, then the interface set, then
\* the store.
ProcessRouterSteps == <<"get_device_info", "get_monitored_interfaces", "store">>

\* Mutant: no rate-limiting sleep after the query.
AfterQueryNoDelay(fn) == "ready"

\* `await asyncio.sleep(request_interval)` follows every snmp_get / snmp_walk.
AfterQuery(fn) == "delay"

\* The task is resumed and calls snmp_get / snmp_walk, which starts the
\* child process and awaits its end.
QueryStart(t) ==
    /\ sched = 0
    /\ dtask[t].pc = "ready"
    /\ dtask[t].fn \in ClientFns
    /\ dtask' = [dtask EXCEPT ![t] =
                    [@ EXCEPT !.pc = "io",
                              !.outstanding = @ + 1,
                              !.last = "start",
                              !.afterTypes = @ \/ dtask[t].walked]]
    /\ UNCHANGED sched
    /\ UNCHANGED <<orchVars, dbVars, upsertVars, partVars, poolVars, listVars, utilVars,
                   parseVars, bindVars, sampVars>>

\* The child process ended: the gateway returns (or raises) and the caller
\* goes on to its rate-limiting sleep.
QueryEnd(t) ==
    /\ sched = 0
    /\ dtask[t].pc = "io"
    /\ \E tr \in TransportOutcomes :
       \E table \in IF dtask[t].fn = "get_monitored_interfaces" /\ dtask[t].k = 0
                    THEN TypeTables ELSE AttrTables :
         LET d  == dtask[t]
             r  == IF d.fn = "get_device_info"
                   THEN snmp_get(tr, PyInt(1))
                   ELSE snmp_walk(tr, table)
             g  == [op |-> IF d.fn = "get_device_info" THEN "snmp_get" ELSE "snmp_walk",
                    failed |-> TransportFailed(tr), raised |-> r.raised,
                    val |-> r.val, map |-> r.map]
         IN  dtask' = [dtask EXCEPT ![t] =
                IF r.raised # "none"
                THEN [d EXCEPT !.pc = "raised", !.ended = "raised", !.outstanding = 0,
                               !.last = "end", !.gw = g]
                ELSE [d EXCEPT !.pc = AfterQuery(d.fn), !.outstanding = 0,
                               !.last = "end", !.gw = g,
                               !.if_types = IF d.fn = "get_monitored_interfaces" /\ d.k = 0
                                            THEN r.map ELSE @,
                               !.walked = @ \/ (d.fn = "get_monitored_interfaces"
                                                /\ d.k = 0)]]
    /\ UNCHANGED sched
    /\ UNCHANGED <<orchVars, dbVars, upsertVars, partVars, poolVars, listVars, utilVars,
                   parseVars, bindVars, sampVars>>

\* What follows the sleep, up to the next query: the next name of the loop,
\* the return of the function and the call of the next one.  The locals
\* if_types and monitored_indices are kept as long as the code reads them.
Advance(d) ==
    CASE d.fn = "get_device_info" ->
            IF d.k < Len(SysOids)
            THEN [d EXCEPT !.k = @ + 1]
            ELSE [d EXCEPT !.fn = ProcessRouterSteps[2], !.k = 0]
      [] d.fn = "get_monitored_interfaces" /\ d.k = 0 ->
            IF ReturnsEarly(d.if_types)
            THEN [d EXCEPT !.fn = ProcessRouterSteps[3], !.result = "empty",
                           !.if_types = EmptyMap]
            ELSE [d EXCEPT !.k = 1, !.if_types = EmptyMap,
                           !.monitored_indices = MonitoredIndices(d.if_types)]
      [] d.fn = "get_monitored_interfaces" /\ d.k > 0 ->
            IF d.k < Len(AttrOids)
            THEN [d EXCEPT !.k = @ + 1]
            ELSE [d EXCEPT !.fn = "get_ip_to_interface_mapping", !.k = 1]
      [] OTHER ->
            IF d.k < Len(IpOids)
            THEN [d EXCEPT !.k = @ + 1]
            ELSE [d EXCEPT !.fn = ProcessRouterSteps[3], !.result = "interfaces",
                           !.monitored_indices = {}]

\* The timer of asyncio.sleep fired and the task is resumed.
DelayOver(t) ==
    /\ sched = 0
    /\ dtask[t].pc = "delay"
    /\ dtask' = [dtask EXCEPT ![t] =
                    [Advance(dtask[t]) EXCEPT !.pc = "ready", !.last = "delay",
                                              !.gw = NoGw]]
    /\ UNCHANGED sched
    /\ UNCHANGED <<orchVars, dbVars, upsertVars, partVars, poolVars, listVars, utilVars,
                   parseVars, bindVars, sampVars>>

\* The task calls a DAO operation: `with db_connection(config)` runs on the
\* event-loop thread; no await inside suspends it.
StoreCall(t) ==
    /\ sched = 0
    /\ dtask[t].pc = "ready"
    /\ dtask[t].fn = "store"
    /\ dtask' = [dtask EXCEPT ![t] = [@ EXCEPT !.pc = "acquire"]]
    /\ sched' = t
    /\ UNCHANGED <<orchVars, dbVars, upsertVars, partVars, poolVars, listVars, utilVars,
                   parseVars, bindVars, sampVars>>

\* connection_pool.get_connection(); on Error the attempt is counted, the
\* last one raises, the others go to time.sleep(0.5).
StoreAcquire(t) ==
    /\ sched = t
    /\ dtask[t].pc = "acquire"
    /\ \E ok \in BOOLEAN :
         IF ok
         THEN /\ dtask' = [dtask EXCEPT ![t] = [@ EXCEPT !.pc = "execute"]]
              /\ UNCHANGED sched
         ELSE IF dtask[t].rc + 1 >= CmMaxRetries
              THEN /\ dtask' = [dtask EXCEPT ![t] =
                                  [@ EXCEPT !.rc = @ + 1, !.pc = "done",
                                            !.ended = "failure"]]
                   /\ sched' = 0
              ELSE /\ dtask' = [dtask EXCEPT ![t] =
                                  [@ EXCEPT !.rc = @ + 1, !.pc = "pause"]]
                   /\ UNCHANGED sched
    /\ UNCHANGED <<orchVars, dbVars, upsertVars, partVars, poolVars, listVars, utilVars,
                   parseVars, bindVars, sampVars>>

\* time.sleep(0.5) returns.
StorePauseOver(t) ==
    /\ sched = t
    /\ dtask[t].pc = "pause"
    /\ dtask' = [dtask EXCEPT ![t] = [@ EXCEPT !.pc = "acquire"]]
    /\ UNCHANGED sched
    /\ UNCHANGED <<orchVars, dbVars, upsertVars, partVars, poolVars, listVars, utilVars,
                   parseVars, bindVars, sampVars>>

\* execute_with_retry: cursor.execute; on Error the attempt is counted, the
\* last one raises, the others go to time.sleep(backoff).  After the last
\* statement the operation commits, closes and returns.
StoreExecute(t) ==
    /\ sched = t
    /\ dtask[t].pc = "execute"
    /\ \E ok \in BOOLEAN :
         IF ok
         THEN /\ dtask' = [dtask EXCEPT ![t] = [@ EXCEPT !.pc = "done",
                                                        !.ended = "success"]]
              /\ sched' = 0
         ELSE IF dtask[t].xc + 1 >= XrMaxRetries
              THEN /\ dtask' = [dtask EXCEPT ![t] =
                                  [@ EXCEPT !.xc = @ + 1, !.pc = "done",
                                            !.ended = "failure"]]
                   /\ sched' = 0
              ELSE /\ dtask' = [dtask EXCEPT ![t] =
                                  [@ EXCEPT !.xc = @ + 1, !.pc = "backoff"]]
                   /\ UNCHANGED sched
    /\ UNCHANGED <<orchVars, dbVars, upsertVars, partVars, poolVars, listVars, utilVars,
                   parseVars, bindVars, sampVars>>

\* time.sleep(backoff) returns.
StoreBackoffOver(t) ==
    /\ sched = t
    /\ dtask[t].pc = "backoff"
    /\ dtask' = [dtask EXCEPT ![t] = [@ EXCEPT !.pc = "execute"]]
    /\ UNCHANGED sched
    /\ UNCHANGED <<orchVars, dbVars, upsertVars, partVars, poolVars, listVars, utilVars,
                   parseVars, bindVars, sampVars>>

\* What the event loop can do for task t when it has the thread.
TaskStep(t) ==
    \/ QueryStart(t)
    \/ QueryEnd(t)
    \/ DelayOver(t)
    \/ StoreCall(t)

InitPoll ==
    /\ sched = 0
    /\ dtask = [t \in PollTasks |-> NoDTask]
    /\ pool_size = 1
    /\ db = EmptyDb
    /\ DbIdle
    /\ OrchIdle
    /\ UpsertIdle
    /\ PartIdle
    /\ PoolIdle
    /\ ListIdle
    /\ UtilIdle
    /\ NewIdle

NextPoll ==
    \/ \E t \in PollTasks : QueryStart(t)
    \/ \E t \in PollTasks : QueryEnd(t)
    \/ \E t \in PollTasks : DelayOver(t)
    \/ \E t \in PollTasks : StoreCall(t)
    \/ \E t \in PollTasks : StoreAcquire(t)
    \/ \E t \in PollTasks : StorePauseOver(t)
    \/ \E t \in PollTasks : StoreExecute(t)
    \/ \E t \in PollTasks : StoreBackoffOver(t)

SpecPoll == InitPoll /\ [][NextPoll]_vars

(***************************************************************************)
(* The device list: src/main.py read_router_ips, then process_routers      *)
(***************************************************************************)
MaxLines == 3

\* The texts of addresses that ipaddress.ip_address accepts; the last one
\* is an address written in capitals.
AddressTexts == {"10.0.0.1", "10.0.0.2", "2001:DB8::1"}

\* A line is the sequence of its pieces of text: an address text, a word
\* ("core"), the character '#', or white space (" ").
ListLines ==
    { <<"10.0.0.1">>,
      <<"10.0.0.2">>,
      <<"2001:DB8::1">>,
      <<" ", "10.0.0.1", " ">>,
      <<"10.0.0.2", " ", "#", "core">>,
      <<"#", "10.0.0.1">>,
      <<>>,
      <<" ">>,
      <<"core">>,
      <<"10.0.0.1", " ", "core">>,
      <<"10.0.0.1", "#", "10.0.0.2">> }

ListFiles ==
    {AbsentFile} \cup {[exists |-> TRUE, lines |-> ls] : ls \in SeqsUpTo(ListLines, MaxLines)}

\* Mutant: the comment is left on the line.
KeepsComment(line) == line

\* line.split('#')[0]
RECURSIVE BeforeHash(_)
BeforeHash(line) ==
    IF line = <<>> \/ Head(line) = "#"
    THEN <<>>
    ELSE <<Head(line)>> \o BeforeHash(Tail(line))

RECURSIVE LStrip(_)
LStrip(line) ==
    IF line # <<>> /\ Head(line) = " " THEN LStrip(Tail(line)) ELSE line

RECURSIVE RStrip(_)
RStrip(line) ==
    IF line # <<>> /\ line[Len(line)] = " "
    THEN RStrip(SubSeq(line, 1, Len(line) - 1))
    ELSE line

\* str.strip()
Strip(line) == RStrip(LStrip(line))

\* ipaddress.ip_address(line) returns an address: the text is exactly one
\* address; anything else raises ValueError.
IsIpAddress(line) == Len(line) = 1 /\ line[1] \in AddressTexts

\* str(ip): the canonical text of the address.
StrOfIp(text) == IF text = "2001:DB8::1" THEN "2001:db8::1" ELSE text

\* The body of `for line in file`.
RECURSIVE ReadLines(_, _)
ReadLines(lines, ips) ==
    IF lines = <<>>
    THEN ips
    ELSE LET line == Strip(BeforeHash(Head(lines)))
         IN  ReadLines(Tail(lines),
                       IF line = <<>> THEN ips
                       ELSE IF IsIpAddress(line) THEN Append(ips, StrOfIp(line[1]))
                       ELSE ips)

\* FileNotFoundError is logged and the empty list returned.
read_router_ips(f) == IF f.exists THEN ReadLines(f.lines, <<>>) ELSE <<>>

\* main: the list is read; an empty list ends the process with status 1.
ReadList ==
    /\ pcMain = "read"
    /\ router_ips' = read_router_ips(listFile)
    /\ pcMain' = IF router_ips' = <<>> THEN "exited" ELSE "process"
    /\ UNCHANGED <<cap, semValue, task, successful_count, failed_routers, failedIdx,
                   succIdx, handed, failedFile>>
    /\ UNCHANGED nonOrchVars

\* process_routers up to gather: the semaphore and one coroutine per entry
\* of the list.
CreateTasks ==
    /\ pcMain = "process"
    /\ semValue' = cap
    /\ task' = [i \in DOMAIN router_ips |-> "created"]
    /\ pcMain' = "gather"
    /\ UNCHANGED <<router_ips, cap, successful_count, failed_routers, failedIdx,
                   succIdx, handed, failedFile>>
    /\ UNCHANGED nonOrchVars

InitRead ==
    /\ listFile \in ListFiles
    /\ router_ips = <<>>
    /\ cap = 0
    /\ semValue = 0
    /\ task = <<>>
    /\ successful_count = 0
    /\ failed_routers = <<>>
    /\ failedIdx = <<>>
    /\ succIdx = {}
    /\ pcMain = "read"
    /\ handed = NeverHanded
    /\ failedFile = AbsentFile
    /\ pool_size = 1
    /\ db = EmptyDb
    /\ DbIdle
    /\ UpsertIdle
    /\ PartIdle
    /\ PoolIdle
    /\ PollIdle
    /\ UtilIdle
    /\ NewIdle

NextRead == ReadList

SpecRead == InitRead /\ [][NextRead]_vars

InitList ==
    /\ listFile \in ListFiles
    /\ router_ips = <<>>
    /\ cap \in 0..MaxCap
    /\ semValue = 0
    /\ task = <<>>
    /\ successful_count = 0
    /\ failed_routers = <<>>
    /\ failedIdx = <<>>
    /\ succIdx = {}
    /\ pcMain = "read"
    /\ handed = NeverHanded
    /\ failedFile \in PriorFiles
    /\ pool_size = 1
    /\ db = EmptyDb
    /\ DbIdle
    /\ UpsertIdle
    /\ PartIdle
    /\ PoolIdle
    /\ PollIdle
    /\ UtilIdle
    /\ NewIdle

NextList ==
    \/ ReadList
    \/ CreateTasks
    \/ \E i \in Tasks : SemAcquire(i)
    \/ \E i \in Tasks : PollReturns(i)
    \/ \E i \in Tasks : PollRaises(i)
    \/ GatherReturns
    \/ GatherRaises
    \/ SaveFailed
    \/ \E i \in Tasks : CancelTask(i)

SpecList == InitList /\ [][NextList]_vars

(***************************************************************************)
(* Utilization read path: src/db/interface_dao.py                          *)
(* calculate_interface_utilization                                         *)
(***************************************************************************)
MaxStats == 3

\* Values of the BIGINT speed columns of a row of interfaces: NULL or a number.
SpeedVals == {PyNone, PyInt(0), PyInt(1), PyInt(2)}

\* What get_interface_by_id returns: None (no row, or a store error), or
\* the row as a dictionary.
InterfaceResults ==
    {[found |-> FALSE, ifHighSpeed |-> PyNone, ifSpeed |-> PyNone]}
    \cup {[found |-> TRUE, ifHighSpeed |-> h, ifSpeed |-> s] : h, s \in SpeedVals}

RefInterface == [found |-> TRUE, ifHighSpeed |-> PyInt(2), ifSpeed |-> PyInt(1)]

\* Octet counters as save_interface_stats_batch stores them: int(x or 0).
OctetVals == {0, 1, 2}

\* Seconds between a row of interface_stats and the next one of the same
\* interface in timestamp order: the same second, or later.
TimeSteps == {0, 2}

\* The counters of one row; the out counters take the values of the in
\* counters the other way round, so that each family sees every pair of
\* values.
CounterSets ==
    {[ifInOctets |-> a, ifHCInOctets |-> b, ifOutOctets |-> b, ifHCOutOctets |-> a] :
        a, b \in OctetVals}

ZeroCounters ==
    {[ifInOctets |-> 0, ifHCInOctets |-> 0, ifOutOctets |-> 0, ifHCOutOctets |-> 0]}

StatRow(ts, c) ==
    [timestamp |-> ts, ifInOctets |-> c.ifInOctets, ifOutOctets |-> c.ifOutOctets,
     ifHCInOctets |-> c.ifHCInOctets, ifHCOutOctets |-> c.ifHCOutOctets]

\* Truth value of a number or None in `if not x` and `x and y`.
Truthy(v) == v.tag # "None" /\ v.n # 0

\* Mutant: the standard speed first.
StandardSpeedFirst(interface) ==
    IF Truthy(interface.ifSpeed) THEN interface.ifSpeed ELSE interface.ifHighSpeed

\* `interface_speed = interface.get('ifHighSpeed', 0)`, replaced by ifSpeed
\* when it is None or 0.
InterfaceSpeed(interface) ==
    IF ~Truthy(interface.ifHighSpeed) THEN interface.ifSpeed ELSE interface.ifHighSpeed

\* Mutant: only a negative time difference is skipped.
SkipsOnlyNegative(time_diff) == time_diff < 0

\* `if time_diff <= 0: continue`
SkipsPair(time_diff) == time_diff <= 0

\* The difference of the HC counters when both are non-zero, else of the
\* standard counters.
OctetDelta(curr, prev, hc, std) ==
    IF curr[hc] # 0 /\ prev[hc] # 0 THEN curr[hc] - prev[hc] ELSE curr[std] - prev[std]

\* Mutant: a negative difference is kept.
KeepsNegativeDelta(delta, curr, hc, std) == delta

\* `if in_bytes < 0:` the HC counter of curr when non-zero, else the
\* standard one.
HandleReset(delta, curr, hc, std) ==
    IF delta < 0
    THEN IF curr[hc] # 0 THEN curr[hc] ELSE curr[std]
    ELSE delta

\* A float quotient, kept as numerator and denominator.
Quotient(num, den) == [num |-> num, den |-> den]

\* One pass of the loop body for the pair (prev, curr): an exception, no
\* record, or the record appended.
PairRecord(prev, curr, speed) ==
    LET time_diff == curr.timestamp - prev.timestamp
        in_bytes  == HandleReset(OctetDelta(curr, prev, "ifHCInOctets", "ifInOctets"),
                                 curr, "ifHCInOctets", "ifInOctets")
        out_bytes == HandleReset(OctetDelta(curr, prev, "ifHCOutOctets", "ifOutOctets"),
                                 curr, "ifHCOutOctets", "ifOutOctets")
    IN  IF SkipsPair(time_diff)
        THEN [exc |-> "none", records |-> <<>>]
        ELSE IF time_diff = 0
        THEN [exc |-> "ZeroDivisionError", records |-> <<>>]
        ELSE IF speed.tag = "None"
        THEN [exc |-> "TypeError", records |-> <<>>]
        ELSE [exc |-> "none",
              records |->
                <<[timestamp       |-> curr.timestamp,
                   in_bps          |-> Quotient(in_bytes * 8, time_diff),
                   out_bps         |-> Quotient(out_bytes * 8, time_diff),
                   in_utilization  |-> Quotient(in_bytes * 8 * 100,
                                                time_diff * speed.n * 1000000),
                   out_utilization |-> Quotient(out_bytes * 8 * 100,
                                                time_diff * speed.n * 1000000)]>>]

\* `for i in range(1, len(stats))`, with i counted from 2 here.
RECURSIVE UtilLoop(_, _, _, _)
UtilLoop(stats, i, speed, utilization) ==
    IF i > Len(stats)
    THEN [exc |-> "none", records |-> utilization]
    ELSE LET r == PairRecord(stats[i - 1], stats[i], speed)
         IN  IF r.exc # "none"
             THEN r
             ELSE UtilLoop(stats, i + 1, speed, utilization \o r.records)

\* The try body.
UtilBody(interface, stats) ==
    IF ~interface.found
    THEN [exc |-> "none", records |-> <<>>]
    ELSE LET interface_speed == InterfaceSpeed(interface)
         IN  IF interface_speed.tag # "None" /\ interface_speed.n = 0
             THEN [exc |-> "none", records |-> <<>>]
             ELSE IF Len(stats) < 2
             THEN [exc |-> "none", records |-> <<>>]
             ELSE UtilLoop(stats, 2, interface_speed, <<>>)

\* `except Exception` logs and returns [].
calculate_interface_utilization(interface, stats) ==
    LET r == UtilBody(interface, stats)
    IN  IF r.exc # "none"
        THEN IF ExceptException(r.exc)
             THEN [raised |-> "none", caught |-> r.exc, records |-> <<>>]
             ELSE [raised |-> r.exc, caught |-> "none", records |-> <<>>]
        ELSE [raised |-> "none", caught |-> "none", records |-> r.records]

NoUtilResult == [raised |-> "none", caught |-> "none", records |-> <<>>]

\* get_interface_stats: one more row of the range, in timestamp order.  The
\* reference interface is given rows with every counter value, the others
\* rows without traffic.
FetchRow ==
    /\ util.pc = "stats"
    /\ Len(util.stats) < MaxStats
    /\ \E c \in IF util.interface = RefInterface THEN CounterSets ELSE ZeroCounters :
       \E dt \in TimeSteps :
         util' = [util EXCEPT !.stats =
                     IF util.stats = <<>>
                     THEN <<StatRow(0, c)>>
                     ELSE Append(@, StatRow(@[Len(@)].timestamp + dt, c))]
    /\ UNCHANGED <<orchVars, dbVars, upsertVars, partVars, poolVars, pollVars, listVars,
                   parseVars, bindVars, sampVars>>

\* The rows are in (or the function returned before asking for them) and
\* the call returns.
Calculate ==
    /\ util.pc \in {"early", "stats"}
    /\ util' = [util EXCEPT !.pc = "returned",
                            !.result = calculate_interface_utilization(util.interface,
                                                                       util.stats)]
    /\ UNCHANGED <<orchVars, dbVars, upsertVars, partVars, poolVars, pollVars, listVars,
                   parseVars, bindVars, sampVars>>

\* `if not interface` and `if interface_speed == 0` return before the rows
\* are asked for.
ReturnsBeforeStats(interface) ==
    \/ ~interface.found
    \/ InterfaceSpeed(interface).tag # "None" /\ InterfaceSpeed(interface).n = 0

InitUtil ==
    /\ \E interface \in InterfaceResults :
         util = [pc |-> IF ReturnsBeforeStats(interface) THEN "early" ELSE "stats",
                 interface |-> interface, stats |-> <<>>, result |-> NoUtilResult]
    /\ pool_size = 1
    /\ db = EmptyDb
    /\ DbIdle
    /\ OrchIdle
    /\ UpsertIdle
    /\ PartIdle
    /\ PoolIdle
    /\ PollIdle
    /\ ListIdle
    /\ NewIdle

NextUtil ==
    \/ FetchRow
    \/ Calculate

SpecUtil == InitUtil /\ [][NextUtil]_vars

(***************************************************************************)
(* Response Parser: snmp/parsers.py                                        *)
(***************************************************************************)
\* A text is the sequence of its pieces.  A piece is a type marker of the
\* snmp tools' output, a run of decimal digits, or one character:
\* the hex letter "A", the letter "z", white space " ", and the punctuation
\* of the patterns.
MaxPieces == 3

TypeMarkers ==
    {"INTEGER:", "Counter32:", "Counter64:", "Gauge32:", "Timeticks:",
     "Hex-STRING:", "IpAddress:", "STRING:"}

\* The runs of decimal digits and the number each one writes.
DigitVal == ("0" :> 0) @@ ("1" :> 1) @@ ("2" :> 2) @@ ("6" :> 6) @@ ("7" :> 7) @@ ("10" :> 10)

IsDigits(c) == c \in DOMAIN DigitVal

\* What a run of digits multiplies the digits before it by.
DigitShift(c) == IF c = "10" THEN 100 ELSE 10

IsSpace(c) == c = " "

\* [0-9A-Fa-f\s]
InHexClass(c) == IsDigits(c) \/ c \in {"A", "C"} \/ IsSpace(c)

\* The piece at position i, "" past the end of the text.
At(s, i) == IF i \in 1..Len(s) THEN s[i] ELSE ""

\* Where the longest run of pieces of one class that starts at i ends
\* (the position after it): a greedy `\s*`, `\d+` or `[...]+`.
RunEnd(s, i, InClass(_)) ==
    CHOOSE j \in i..(Len(s) + 1) :
        /\ \A k \in i..(j - 1) : InClass(s[k])
        /\ j = Len(s) + 1 \/ ~InClass(s[j])

\* int() of the digits s[i..j-1].
RECURSIVE DecVal(_, _, _)
DecVal(s, i, j) ==
    IF j <= i THEN 0
    ELSE DecVal(s, i, j - 1) * DigitShift(s[j - 1]) + DigitVal[s[j - 1]]

\* re.search: the leftmost position at which the pattern matches, 0 if none.
Search(s, MatchesAt(_)) ==
    IF \E i \in 1..Len(s) : MatchesAt(i)
    THEN CHOOSE i \in 1..Len(s) : MatchesAt(i) /\ \A k \in 1..(i - 1) : ~MatchesAt(k)
    ELSE 0

\* The values parse_snmp_value returns, with the rule that produced them.
StrValue(rule, text) ==
    [raised |-> "none", rule |-> rule, kind |-> "str", text |-> text, n |-> 0]

IntValue(rule, n) ==
    [raised |-> "none", rule |-> rule, kind |-> "int", text |-> <<>>, n |-> n]

FloatValue(rule, text) ==
    [raised |-> "none", rule |-> rule, kind |-> "float", text |-> text, n |-> 0]

ParserRaises(e) ==
    [raised |-> e, rule |-> "none", kind |-> "none", text |-> <<>>, n |-> 0]

\* `<marker>\s*(\d+)` at position i, for the markers in ms.
NumberAt(s, i, ms) ==
    /\ s[i] \in ms
    /\ IsDigits(At(s, RunEnd(s, i + 1, IsSpace)))

NumberOf(s, i) ==
    LET j == RunEnd(s, i + 1, IsSpace)
    IN  DecVal(s, j, RunEnd(s, j, IsDigits))

\* `Timeticks:\s*\((\d+)\)` at position i.
TicksAt(s, i) ==
    LET j == RunEnd(s, i + 1, IsSpace)
    IN  /\ s[i] = "Timeticks:"
        /\ At(s, j) = "("
        /\ IsDigits(At(s, j + 1))
        /\ At(s, RunEnd(s, j + 1, IsDigits)) = ")"

TicksOf(s, i) ==
    LET j == RunEnd(s, i + 1, IsSpace)
    IN  DecVal(s, j + 1, RunEnd(s, j + 1, IsDigits))

\* The first character of a piece, for the pieces that begin with a
\* character of the hex class without being in it.
HexHead(c) == IF c \in {"Counter32:", "Counter64:"} THEN <<"C">> ELSE <<>>

\* `Hex-STRING:\s*([0-9A-Fa-f\s]+)` at position i: at least one character of
\* the class follows the marker.
HexAt(s, i) ==
    /\ s[i] = "Hex-STRING:"
    /\ i < Len(s)
    /\ InHexClass(s[i + 1]) \/ HexHead(s[i + 1]) # <<>>

\* match.group(1).strip(): the run of the class after the marker, without
\* the white space around it.
HexGroup(s, i) ==
    LET j == RunEnd(s, i + 1, InHexClass)
    IN  Strip(SubSeq(s, i + 1, j - 1) \o HexHead(At(s, j)))

\* The number of values of str.split(): the runs without white space.
SplitCount(t) ==
    Cardinality({k \in 1..Len(t) : ~IsSpace(t[k]) /\ (k = 1 \/ IsSpace(t[k - 1]))})

\* ":".join(t.split()) of a stripped text.
RECURSIVE JoinColon(_)
JoinColon(t) ==
    IF t = <<>> THEN <<>>
    ELSE IF IsSpace(Head(t))
         THEN IF Len(t) > 1 /\ IsSpace(t[2]) THEN JoinColon(Tail(t))
              ELSE <<":">> \o JoinColon(Tail(t))
         ELSE <<Head(t)>> \o JoinColon(Tail(t))

\* Six values are a physical address.
HexOf(s, i) ==
    LET g == HexGroup(s, i)
    IN  IF SplitCount(g) = 6 THEN JoinColon(g) ELSE g

\* Where `\d+\.\d+\.\d+\.\d+` ends when it matches from position j with
\* still n groups to read, 0 when it does not match.
RECURSIVE QuadEnd(_, _, _)
QuadEnd(s, j, n) ==
    LET e == RunEnd(s, j, IsDigits)
    IN  IF e = j THEN 0
        ELSE IF n = 1 THEN e
        ELSE IF At(s, e) = "." THEN QuadEnd(s, e + 1, n - 1)
        ELSE 0

\* `IpAddress:\s*(\d+\.\d+\.\d+\.\d+)` at position i.
IpAt(s, i) ==
    /\ s[i] = "IpAddress:"
    /\ QuadEnd(s, RunEnd(s, i + 1, IsSpace), 4) # 0

IpOf(s, i) ==
    LET j == RunEnd(s, i + 1, IsSpace)
    IN  SubSeq(s, j, QuadEnd(s, j, 4) - 1)

\* int(value_str) does not raise ValueError: white space, an optional sign,
\* digits, white space.
IntParses(s) ==
    LET t == Strip(s)
        u == IF At(t, 1) = "-" THEN Tail(t) ELSE t
    IN  u # <<>> /\ \A k \in 1..Len(u) : IsDigits(u[k])

IntegerOf(s) ==
    LET t == Strip(s)
    IN  IF At(t, 1) = "-" THEN 0 - DecVal(t, 2, Len(t) + 1) ELSE DecVal(t, 1, Len(t) + 1)

\* float(value_str) does not raise ValueError: white space, an optional
\* sign, digits with at most one point and at least one digit, white space.
FloatParses(s) ==
    LET t == Strip(s)
        u == IF At(t, 1) = "-" THEN Tail(t) ELSE t
    IN  /\ \A k \in 1..Len(u) : IsDigits(u[k]) \/ u[k] = "."
        /\ \E k \in 1..Len(u) : IsDigits(u[k])
        /\ Cardinality({k \in 1..Len(u) : u[k] = "."}) <= 1

CounterMarkers == {"Counter32:", "Counter64:", "Gauge32:"}

\* The patterns of parse_snmp_value, each with the condition under which it
\* returns and the value it returns.
Applies(rule, s) ==
    CASE rule = "empty"   -> s = <<>> \/ s = <<"STRING:">>
      [] rule = "quoted"  -> s # <<>> /\ s[1] = "\"" /\ s[Len(s)] = "\""
      [] rule = "integer" -> Search(s, LAMBDA i : NumberAt(s, i, {"INTEGER:"})) # 0
      [] rule = "counter" -> Search(s, LAMBDA i : NumberAt(s, i, CounterMarkers)) # 0
      [] rule = "ticks"   -> Search(s, LAMBDA i : TicksAt(s, i)) # 0
      [] rule = "hex"     -> Search(s, LAMBDA i : HexAt(s, i)) # 0
      [] rule = "ip"      -> Search(s, LAMBDA i : IpAt(s, i)) # 0
      [] OTHER            -> TRUE

\* `except ValueError:`
ExceptValueError(e) == e = "ValueError"

\* `try: return int(value_str)`, then `try: return float(value_str)`, then
\* `return value_str`.
ConvertText(s) ==
    LET int_raises   == IF IntParses(s) THEN "none" ELSE "ValueError"
        float_raises == IF FloatParses(s) THEN "none" ELSE "ValueError"
    IN  IF int_raises = "none" THEN IntValue("int", IntegerOf(s))
        ELSE IF ~ExceptValueError(int_raises) THEN ParserRaises(int_raises)
        ELSE IF float_raises = "none" THEN FloatValue("float", Strip(s))
        ELSE IF ~ExceptValueError(float_raises) THEN ParserRaises(float_raises)
        ELSE StrValue("text", s)

ValueOf(rule, s) ==
    CASE rule = "empty"   -> StrValue(rule, <<>>)
      [] rule = "quoted"  -> StrValue(rule, SubSeq(s, 2, Len(s) - 1))
      [] rule = "integer" ->
            IntValue(rule, NumberOf(s, Search(s, LAMBDA i : NumberAt(s, i, {"INTEGER:"}))))
      [] rule = "counter" ->
            IntValue(rule, NumberOf(s, Search(s, LAMBDA i : NumberAt(s, i, CounterMarkers))))
      [] rule = "ticks"   -> IntValue(rule, TicksOf(s, Search(s, LAMBDA i : TicksAt(s, i))))
      [] rule = "hex"     -> StrValue(rule, HexOf(s, Search(s, LAMBDA i : HexAt(s, i))))
      [] rule = "ip"      -> StrValue(rule, IpOf(s, Search(s, LAMBDA i : IpAt(s, i))))
      [] OTHER            -> ConvertText(s)

\* Mutant: the tick-count pattern is tried before the integer patterns.
TicksFirst ==
    <<"empty", "quoted", "ticks", "integer", "counter", "hex", "ip", "convert">>

\* The order in which the function tries its patterns; the conversions of
\* the whole text come last.
RuleOrder ==
    <<"empty", "quoted", "integer", "counter", "ticks", "hex", "ip", "convert">>

\* parse_snmp_value: the value of the first rule that applies.
parse_snmp_value(s) ==
    LET k == CHOOSE k \in DOMAIN RuleOrder :
                 /\ Applies(RuleOrder[k], s)
                 /\ \A j \in 1..(k - 1) : ~Applies(RuleOrder[j], s)
    IN  ValueOf(RuleOrder[k], s)

\* A dict, in insertion order: a sequence of items with distinct keys.
DictKeys(d) == {d[k].key : k \in DOMAIN d}

DictGet(d, key) == (CHOOSE k \in DOMAIN d : d[k].key = key)

\* d[key] = val
DictPut(d, key, val) ==
    IF key \in DictKeys(d)
    THEN [k \in DOMAIN d |-> IF d[k].key = key THEN [key |-> key, val |-> val] ELSE d[k]]
    ELSE Append(d, [key |-> key, val |-> val])

\* Where the first "=" of the line is, 0 if there is none.
FirstEquals(line) ==
    IF "=" \in Range(line)
    THEN CHOOSE i \in DOMAIN line : line[i] = "=" /\ \A k \in 1..(i - 1) : line[k] # "="
    ELSE 0

\* full_oid.split('.')[-1]
RECURSIVE LastSegment(_)
LastSegment(oid) ==
    IF oid = <<>> \/ oid[Len(oid)] = "."
    THEN <<>>
    ELSE Append(LastSegment(SubSeq(oid, 1, Len(oid) - 1)), oid[Len(oid)])

\* The loop of parse_snmp_walk_response over the lines of the output.  A
\* value that cannot be parsed ends the function with its exception.
RECURSIVE WalkLoop(_, _)
WalkLoop(lines, result) ==
    IF lines = <<>> THEN [raised |-> "none", dict |-> result]
    ELSE LET line == Head(lines)
             e    == FirstEquals(line)
             v    == parse_snmp_value(Strip(SubSeq(line, e + 1, Len(line))))
         IN  IF Strip(line) = <<>> \/ e = 0
             THEN WalkLoop(Tail(lines), result)
             ELSE IF v.raised # "none"
             THEN [raised |-> v.raised, dict |-> <<>>]
             ELSE WalkLoop(Tail(lines),
                           DictPut(result, LastSegment(Strip(SubSeq(line, 1, e - 1))), v))

parse_snmp_walk_response(lines) == WalkLoop(lines, <<>>)

\* The phrases the texts given to parse_snmp_value are made of.
ValuePhrases ==
    { <<"\"">>, <<" ">>, <<"7">>, <<"A">>, <<"z">>, <<".">>, <<"-">>,
      <<"INTEGER:">>, <<"Counter32:">>, <<"Timeticks:">>, <<"Hex-STRING:">>,
      <<"IpAddress:">>, <<"STRING:">>,
      <<"(", "7", ")">>,
      <<"INTEGER:", " ", "6">>,
      <<"10", ".", "0", ".", "0", ".", "1">>,
      <<"0", "A", " ", "1", "A", " ", "A", " ", "A", " ", "A", " ", "A">> }

MaxWalkLines == 2

\* Lines of a snmpwalk output.
OutputLines ==
    { <<>>,
      <<" ">>,
      <<"z">>,
      <<"ifType", ".", "1", " ", "=", " ", "INTEGER:", " ", "6">>,
      <<"ifType", ".", "2", " ", "=", " ", "INTEGER:", " ", "7">>,
      <<"ifDescr", ".", "1", " ", "=", " ", "STRING:", " ", "z">>,
      <<"ifDescr", ".", "1", "=", "z", "=", "z">>,
      <<"=", " ", "7">> }

NoValue == StrValue("none", <<>>)

NoWalk == [raised |-> "none", dict |-> <<>>]

ParserCalls == {"parse_snmp_value", "parse_snmp_walk_response"}

\* The caller puts the argument together: one more phrase of the text.
AddPhrase ==
    /\ parse.pc = "build"
    /\ parse.fn = "parse_snmp_value"
    /\ parse.phrases < MaxPieces
    /\ \E p \in ValuePhrases :
         parse' = [parse EXCEPT !.text = @ \o p, !.phrases = @ + 1]
    /\ UNCHANGED <<orchVars, dbVars, upsertVars, partVars, poolVars, pollVars, listVars,
                   utilVars, bindVars, sampVars>>

\* One more line of the output.
AddLine ==
    /\ parse.pc = "build"
    /\ parse.fn = "parse_snmp_walk_response"
    /\ Len(parse.lines) < MaxWalkLines
    /\ \E l \in OutputLines :
         parse' = [parse EXCEPT !.lines = Append(@, l)]
    /\ UNCHANGED <<orchVars, dbVars, upsertVars, partVars, poolVars, pollVars, listVars,
                   utilVars, bindVars, sampVars>>

\* The call of the parser with the argument.
ParseCall ==
    /\ parse.pc = "build"
    /\ parse' = [parse EXCEPT
                    !.pc = "returned",
                    !.value = IF parse.fn = "parse_snmp_value"
                              THEN parse_snmp_value(parse.text) ELSE @,
                    !.walk = IF parse.fn = "parse_snmp_walk_response"
                             THEN parse_snmp_walk_response(parse.lines) ELSE @]
    /\ UNCHANGED <<orchVars, dbVars, upsertVars, partVars, poolVars, pollVars, listVars,
                   utilVars, bindVars, sampVars>>

InitParse ==
    /\ pool_size = 1
    /\ db = EmptyDb
    /\ DbIdle
    /\ OrchIdle
    /\ UpsertIdle
    /\ PartIdle
    /\ PoolIdle
    /\ PollIdle
    /\ ListIdle
    /\ UtilIdle
    /\ BindIdle
    /\ SampIdle
    /\ \E fn \in ParserCalls :
         parse = [pc |-> "build", fn |-> fn, text |-> <<>>, phrases |-> 0, lines |-> <<>>,
                  value |-> NoValue, walk |-> NoWalk]

NextParse ==
    \/ AddPhrase
    \/ AddLine
    \/ ParseCall

SpecParse == InitParse /\ [][NextParse]_vars

(***************************************************************************)
(* Interface Assembler on parsed walks: snmp/client.py                     *)
(* get_monitored_interfaces and get_ip_to_interface_mapping                *)
(***************************************************************************)
MaxAddrs == 2

\* Addresses a device may have; two of them end in the same segment.
DeviceAddrs ==
    { <<"10", "0", "0", "1">>, <<"10", "0", "1", "1">>, <<"10", "0", "0", "2">> }

\* The interface an address is bound to: 1 and 2 are interfaces of the
\* device, 7 is not in its interface table.
BoundIndices == {"1", "2", "7"}

\* Type codes of interface 2: ethernetCsmacd or other.
SecondTypes == {"6", "1"}

\* a.b.c.d
Dotted(a) == <<a[1], ".", a[2], ".", a[3], ".", a[4]>>

\* The lines snmpwalk prints for a table of the device.
RECURSIVE IpLines(_, _)
IpLines(addrs, name) ==
    IF addrs = <<>> THEN <<>>
    ELSE LET b == Head(addrs)
         IN  << <<name, ".">> \o Dotted(b.addr) \o <<" ", "=", " ">> \o
                (IF name = "ipAddress"
                 THEN <<"IpAddress:", " ">> \o Dotted(b.addr)
                 ELSE <<"INTEGER:", " ", b.if_index>>) >>
             \o IpLines(Tail(addrs), name)

OidLines(name, dev) ==
    CASE name = "ifType" ->
            << <<"ifType", ".", "1", " ", "=", " ", "INTEGER:", " ", "6">>,
               <<"ifType", ".", "2", " ", "=", " ", "INTEGER:", " ", dev.type2>> >>
      [] name \in {"ipAddress", "ipAdEntIfIndex"} -> IpLines(dev.addrs, name)
      [] OTHER -> << <<name, ".", "1", " ", "=", " ", "INTEGER:", " ", "1">> >>

\* snmp_walk of a table: the parsed output, {} when the transport failed.
Walk(name, dev, tr) ==
    snmp_walk(tr, parse_snmp_walk_response(OidLines(name, dev)).dict).map

NoneValue == [raised |-> "none", rule |-> "none", kind |-> "None", text |-> <<>>, n |-> 0]

\* str(v) of a value the parser returned.
StrOf(v) ==
    IF v.kind = "int"
    THEN <<CHOOSE c \in DOMAIN DigitVal : DigitVal[c] = v.n>>
    ELSE v.text

\* The loop of get_ip_to_interface_mapping over ip_addresses, in order.
RECURSIVE IpMappingLoop(_, _, _)
IpMappingLoop(ip_addresses, ip_to_if_indices, mapping) ==
    IF ip_addresses = <<>> THEN mapping
    ELSE LET ip_idx == Head(ip_addresses).key
             if_idx == StrOf(ip_to_if_indices[DictGet(ip_to_if_indices, ip_idx)].val)
             before == IF if_idx \in DictKeys(mapping)
                       THEN mapping[DictGet(mapping, if_idx)].val ELSE <<>>
         IN  IpMappingLoop(Tail(ip_addresses), ip_to_if_indices,
                 IF ip_idx \in DictKeys(ip_to_if_indices)
                 THEN DictPut(mapping, if_idx,
                              Append(before, StrOf(Head(ip_addresses).val)))
                 ELSE mapping)

\* get_ip_to_interface_mapping, given what its two walks returned.
get_ip_to_interface_mapping(ip_addresses, ip_to_if_indices) ==
    IpMappingLoop(ip_addresses, ip_to_if_indices, <<>>)

\* int(if_type) in INTERFACE_TYPES_TO_MONITOR, ValueError and TypeError
\* skipped: the keys of the monitored interfaces, in the order of the walk.
MonitoredKeys(if_types) ==
    SelectSeq([k \in DOMAIN if_types |-> if_types[k].key],
              LAMBDA key :
                  LET v == if_types[DictGet(if_types, key)].val
                  IN  v.kind = "int" /\ v.n \in INTERFACE_TYPES_TO_MONITOR)

\* ", ".join(list)
RECURSIVE JoinComma(_)
JoinComma(list) ==
    IF list = <<>> THEN <<>>
    ELSE IF Len(list) = 1 THEN list[1]
    ELSE list[1] \o <<",", " ">> \o JoinComma(Tail(list))

\* The record an index starts with: ifIndex is the key of the walk, a str.
NewRecord(index, if_types) ==
    << [key |-> "ifIndex", val |-> StrValue("key", index)],
       [key |-> "ifType",
        val |-> StrValue("label",
                   StrOf(if_types[DictGet(if_types, index)].val) \o
                   <<" ", "(", "label", ")">>)] >>

\* The names walked by a call that finds monitored indices, in order.
WalkedNames == <<"ifType">> \o AttrOids \o IpOids

\* The attribute loop: for every name that is not skipped the walk of the
\* name (tables[k + 1]), and for the index the value of the walk or None.
\* The names are distinct, so each one adds a key to the record.
AttributeLoop(index, tables) ==
    [k \in 1..Len(AttrOids) |->
        [key |-> AttrOids[k],
         val |-> IF index \in DictKeys(tables[k + 1])
                 THEN tables[k + 1][DictGet(tables[k + 1], index)].val
                 ELSE NoneValue]]

NoAssembly == [walked |-> <<>>, interfaces |-> <<>>, ip_if_mapping |-> <<>>]

\* get_monitored_interfaces, given what each of its walks returns:
\* tables[p] is the result of the walk of WalkedNames[p].
get_monitored_interfaces(tables) ==
    LET if_types  == tables[1]
        monitored == MonitoredKeys(if_types)
        mapping   == get_ip_to_interface_mapping(tables[Len(WalkedNames) - 1],
                                                 tables[Len(WalkedNames)])
    IN  IF if_types = <<>> \/ monitored = <<>>
        THEN [NoAssembly EXCEPT !.walked = <<"ifType">>]
        ELSE [walked        |-> WalkedNames,
              ip_if_mapping |-> mapping,
              interfaces    |->
                 [i \in DOMAIN monitored |->
                     [key |-> monitored[i],
                      val |-> NewRecord(monitored[i], if_types)
                              \o AttributeLoop(monitored[i], tables)
                              \o <<[key |-> "ipAddresses",
                                    val |-> StrValue("join",
                                       JoinComma(IF monitored[i] \in DictKeys(mapping)
                                                 THEN mapping[DictGet(mapping, monitored[i])].val
                                                 ELSE <<>>))]>>]]]

\* The positions at which a transport failure is tried: the type walk and
\* the walks of the two IP tables.
FailingPositions ==
    {p \in DOMAIN WalkedNames : WalkedNames[p] \in {"ifType", "ipAddress", "ipAdEntIfIndex"}}

\* The device gets one more address, bound to an interface index.
AddAddress ==
    /\ bind.pc = "device"
    /\ Len(bind.dev.addrs) < MaxAddrs
    /\ \E a \in DeviceAddrs \ {bind.dev.addrs[k].addr : k \in DOMAIN bind.dev.addrs} :
       \E n \in BoundIndices :
         bind' = [bind EXCEPT !.dev.addrs = Append(@, [addr |-> a, if_index |-> n])]
    /\ UNCHANGED <<orchVars, dbVars, upsertVars, partVars, poolVars, pollVars, listVars,
                   utilVars, parseVars, sampVars>>

\* The device answers the walks of a call of get_monitored_interfaces, the
\* transport failing at the positions in failing.
AnswerWalks ==
    /\ bind.pc = "device"
    /\ \E failing \in SUBSET FailingPositions :
         bind' = [bind EXCEPT
                     !.pc = "walked",
                     !.failing = failing,
                     !.tables = [p \in DOMAIN WalkedNames |->
                                   Walk(WalkedNames[p], bind.dev,
                                        IF p \in failing THEN "exit_nonzero" ELSE "ok")]]
    /\ UNCHANGED <<orchVars, dbVars, upsertVars, partVars, poolVars, pollVars, listVars,
                   utilVars, parseVars, sampVars>>

\* get_monitored_interfaces returns what it made of the walks.
Assemble ==
    /\ bind.pc = "walked"
    /\ bind' = [bind EXCEPT !.pc = "returned",
                            !.tables = <<>>,
                            !.result = get_monitored_interfaces(bind.tables)]
    /\ UNCHANGED <<orchVars, dbVars, upsertVars, partVars, poolVars, pollVars, listVars,
                   utilVars, parseVars, sampVars>>

InitBind ==
    /\ pool_size = 1
    /\ db = EmptyDb
    /\ DbIdle
    /\ OrchIdle
    /\ UpsertIdle
    /\ PartIdle
    /\ PoolIdle
    /\ PollIdle
    /\ ListIdle
    /\ UtilIdle
    /\ ParseIdle
    /\ SampIdle
    /\ \E t \in SecondTypes :
         bind = [pc |-> "device", dev |-> [type2 |-> t, addrs |-> <<>>],
                 failing |-> {}, tables |-> <<>>, result |-> NoAssembly]

NextBind ==
    \/ AddAddress
    \/ AnswerWalks
    \/ Assemble

SpecBind == InitBind /\ [][NextBind]_vars

(***************************************************************************)
(* The sample table over successive batches: db/interface_dao.py           *)
(* save_interface_stats_batch and db/schema.py interface_stats             *)
(***************************************************************************)
MaxBatches == 2

MaxClock == 1

\* The store of a device with two interfaces, as save_router and
\* save_or_update_interfaces left it.
PolledStore ==
    [routers    |-> {RouterRow(1, "10.0.0.1", "x")},
     interfaces |-> {InterfaceRow(1, 1, 1, "x"), InterfaceRow(2, 1, 2, "x")},
     stats      |-> {}]

\* The samples of one poll: the records of a dict keyed by index.
PollSamples == {d \in SampleLists : \A i, j \in DOMAIN d : d[i].ifIndex = d[j].ifIndex => i = j}

\* cursor.executemany on interface_stats: one row per element of
\* stats_values, all with current_time; stat_id by AUTO_INCREMENT.  The
\* table has no unique index besides the primary key stat_id.
InsertSamples(stats, values, current_time) ==
    LET base == NextId({r.stat_id : r \in stats}) - 1
    IN  stats \cup {[stat_id |-> base + k, interface_id |-> values[k].interface_id,
                     timestamp |-> current_time] : k \in DOMAIN values}

\* `while retry_count < max_retries and not success`: outs are the outcomes
\* of the attempts, pending the rows of the open transaction.
RECURSIVE InsertLoop(_, _, _, _, _, _)
InsertLoop(committed, pending, values, current_time, outs, count) ==
    LET written == InsertSamples(pending, values, current_time)
    IN  IF Head(outs) = "ok"
        THEN [stats |-> written, ret |-> PyTrue, raised |-> "none"]
        ELSE IF count + 1 >= BatchMaxRetries \/ Len(outs) = 1
        THEN [stats |-> committed, ret |-> PyFalse, raised |-> "none"]
        ELSE IF ~DaoTimeHasSleep
        THEN [stats |-> committed, ret |-> PyNone, raised |-> "AttributeError"]
        ELSE InsertLoop(committed,
                        IF Head(outs) = "commit_fails" THEN written ELSE pending,
                        values, current_time, Tail(outs), count + 1)

\* save_interface_stats_batch(interfaces_data, router_id = 1, config) at
\* second current_time, the connections being available.
BatchCall(stats, interfaces_data, current_time, outs) ==
    LET map == InterfaceIdMap(1)
        b   == BuildStatsValues(interfaces_data, map, 1)
    IN  IF DOMAIN map = {} THEN [stats |-> stats, ret |-> PyFalse, raised |-> "none"]
        ELSE IF b.error THEN [stats |-> stats, ret |-> PyNone, raised |-> "ValueError"]
        ELSE IF b.rows = <<>> THEN [stats |-> stats, ret |-> PyFalse, raised |-> "none"]
        ELSE InsertLoop(stats, stats, b.rows, current_time, outs, 0)

InsertOutcomes == {"ok", "executemany_fails", "commit_fails"}

\* A second passes.
ClockTick ==
    /\ samp.pc = "run"
    /\ samp.now < MaxClock
    /\ samp' = [samp EXCEPT !.now = @ + 1]
    /\ UNCHANGED <<orchVars, dbVars, upsertVars, partVars, poolVars, pollVars, listVars,
                   utilVars, parseVars, bindVars>>

\* A poll task saves the samples of a poll of the device.
SaveStatsBatch ==
    /\ samp.pc = "run"
    /\ samp.calls < MaxBatches
    /\ \E d \in PollSamples :
       \E outs \in [1..BatchMaxRetries -> InsertOutcomes] :
         LET r == BatchCall(samp.stats, d, samp.now, outs)
         IN  samp' = [samp EXCEPT
                         !.calls = @ + 1,
                         !.stats = r.stats,
                         !.last  = [time |-> samp.now, before |-> samp.stats,
                                    samples |-> Len(BuildStatsValues(d, InterfaceIdMap(1), 1).rows),
                                    ret |-> r.ret, raised |-> r.raised]]
    /\ UNCHANGED <<orchVars, dbVars, upsertVars, partVars, poolVars, pollVars, listVars,
                   utilVars, parseVars, bindVars>>

NoBatch == [time |-> 0, before |-> {}, samples |-> 0, ret |-> PyNone, raised |-> "none"]

InitStats ==
    /\ pool_size = 2
    /\ db = PolledStore
    /\ DbIdle
    /\ OrchIdle
    /\ UpsertIdle
    /\ PartIdle
    /\ PoolIdle
    /\ PollIdle
    /\ ListIdle
    /\ UtilIdle
    /\ ParseIdle
    /\ BindIdle
    /\ samp = [pc |-> "run", now |-> 0, calls |-> 0, stats |-> {}, last |-> NoBatch]

NextStats ==
    \/ ClockTick
    \/ SaveStatsBatch

SpecStats == InitStats /\ [][NextStats]_vars

(***************************************************************************)
(* Claims                                                                  *)
(***************************************************************************)

Injective(s) == \A i, j \in DOMAIN s : s[i] = s[j] => i = j

C2_PermitsBounded ==
    pcMain # "off" =>
        LET polling == {i \in Tasks : task[i] = "polling"}
        IN  /\ Cardinality(polling) <= cap
            /\ semValue + Cardinality(polling) = cap

C2_Witness ==
    /\ cap >= 1
    /\ Cardinality({i \in Tasks : task[i] = "polling"}) = cap
    /\ \E i \in Tasks : task[i] = "raised"
    /\ \E i \in Tasks : task[i] = "created"

\* C3: a device whose poll returned failure or raised is in the failure list,
\* no other poll is aborted, and once all polls are over the failure list has
\* been handed to save_failed_routers.
C3_FailuresRecorded ==
    /\ \A i \in Tasks : task[i] \in {"failed", "raised"} => i \in Range(failedIdx)
    /\ \A i \in Tasks : task[i] # "cancelled"
    /\ (pcMain \in {"returned", "raised"} /\ failed_routers # <<>>) =>
          handed = [called |-> TRUE, list |-> failed_routers]

\* C4: a run always completes: as long as process_routers has not returned
\* its counts, some step of it or of one of its tasks can be taken.
C4_RunCompletes ==
    pcMain # "off" => (pcMain = "returned" \/ ENABLED NextOrch)

\* C5: every connection handed out by the pool is closed exactly once, and
\* none is still held when the operation is over.
C5_ReleasedExactlyOnce ==
    /\ \A h \in DOMAIN closes : closes[h] <= 1
    /\ pc = "done" => \A h \in DOMAIN closes : closes[h] = 1

\* C6: a batch insert that failed on an attempt before the third is retried,
\* so the call ends returning True with the batch written.
C6_BatchInsertRetried ==
    (/\ pc = "done"
     /\ op = "save_interface_stats_batch"
     /\ hist.insertFails >= 1
     /\ hist.insertFails < BatchMaxRetries) =>
        /\ outcome.kind = "returned"
        /\ outcome.val = PyTrue
        /\ db.stats # db0.stats

AllFalse(s) == \A k \in DOMAIN s : ~s[k]

\* C7: execute_with_retry executes at most 3 times, returns True at the first
\* attempt that succeeds, sleeps a doubling backoff after each failed attempt
\* but the last, raises after the third failure, and never returns False.
C7_ExecuteWithRetry ==
    xr.result # "none" =>
        /\ Len(xr.tried) \in 1..3
        /\ xr.result \in {"True", "raise"}
        /\ xr.result = "True" =>
              /\ xr.tried[Len(xr.tried)]
              /\ AllFalse(SubSeq(xr.tried, 1, Len(xr.tried) - 1))
        /\ xr.result = "raise" =>
              /\ Len(xr.tried) = 3
              /\ AllFalse(xr.tried)
        /\ Len(xr.sleeps) = Cardinality({k \in DOMAIN xr.tried : ~xr.tried[k] /\ k < 3})
        /\ \A k \in DOMAIN xr.sleeps : k > 1 => xr.sleeps[k] = 2 * xr.sleeps[k - 1]

C7_Witness ==
    /\ xr.result = "True"
    /\ Len(xr.tried) = 3
    /\ Len(xr.sleeps) = 2

\* C8: an operation inside which a store Error occurred ends by returning its
\* error value (None or False), raises nothing, and commits nothing.
C8_ErrorsAsValues ==
    (pc = "done" /\ hist.storeError) =>
        /\ outcome.kind = "returned"
        /\ outcome.val = ErrorValue
        /\ db = db0

IsBatch == op = "save_interface_stats_batch"

\* C9: save_interface_stats_batch writes nothing before the map is resolved,
\* and with an empty map it writes no row, raises nothing and returns False.
C9_EmptyMapRejected ==
    IsBatch =>
        /\ (tx.stats # db0.stats \/ db.stats # db0.stats) => hist.mapResolved
        /\ (hist.mapResolved /\ DOMAIN interface_map = {}) =>
              /\ tx.stats = db0.stats
              /\ db = db0
              /\ exc = "none"
              /\ pc = "done" => (outcome.kind = "returned" /\ outcome.val = PyFalse)

C9_Witness ==
    /\ IsBatch
    /\ pc = "done"
    /\ hist.mapResolved
    /\ ~hist.storeError
    /\ {r \in db.interfaces : r.router_id = arg.router_id} = {}
    /\ arg.interfaces_data # <<>>
    /\ outcome.val = PyFalse

KnownSamples ==
    {k \in DOMAIN arg.interfaces_data : arg.interfaces_data[k].ifIndex \in DOMAIN interface_map}

NewStats == db.stats \ db0.stats

UniqueByKey(t, rows) == \A r1, r2 \in rows : UKey(t, r1) = UKey(t, r2) => r1 = r2

\* The attributes the call gives for a key: those of its last target with it.
LastAttrFor(o, a, k) ==
    LET js == {j \in Targets(o, a) : TargetKey(o, a, j) = k}
    IN  TargetAttr(o, a, CHOOSE j \in js : \A i \in js : i <= j)

\* C11: with a single writer, the store never holds two device rows with one
\* address nor two interface rows with one (router_id, ifIndex); a key never
\* gets a second id; and when an upsert has returned, each key it names has
\* exactly one row, with the id it had before the call (the id save_router
\* returns), carrying the attributes of the call, and the table grew only by
\* the keys that were new.
C11_UpsertByKey ==
    nWriters = 1 =>
        /\ \A t \in {"routers", "interfaces"} :
              /\ UniqueByKey(t, udb[t])
              /\ \A p, q \in seen[t] : p[1] = q[1] => p[2] = q[2]
        /\ \A w \in Writers : writers[w].pc = "returned" =>
              LET o == writers[w].op
                  a == writers[w].arg
                  t == WTable(w)
                  b == writers[w].before
                  keys == {TargetKey(o, a, j) : j \in Targets(o, a)}
              IN  /\ \A k \in keys :
                        LET rows == {r \in udb[t] : UKey(t, r) = k}
                            old == {r \in b[t] : UKey(t, r) = k}
                        IN  /\ Cardinality(rows) = 1
                            /\ \A r \in rows :
                                  /\ UAttr(t, r) = LastAttrFor(o, a, k)
                                  /\ \A r0 \in old : UId(t, r0) = UId(t, r)
                                  /\ o = "save_router" => writers[w].result = PyInt(UId(t, r))
                  /\ Cardinality(udb[t]) =
                        Cardinality(b[t]) + Cardinality(keys \ {UKey(t, r) : r \in b[t]})

C11_Witness ==
    /\ nWriters = 1
    /\ writers[1].pc = "returned"
    /\ writers[1].calls = 2
    /\ writers[1].op = "save_router"
    /\ writers[1].arg.router_info = "y"
    /\ \E r \in writers[1].before.routers :
          r.ip_address = writers[1].arg.router_ip /\ r.info = "x"
    /\ Cardinality(udb.routers) = Cardinality(writers[1].before.routers)

SharedKeys ==
    {TargetKey(writers[1].op, writers[1].arg, j) : j \in Targets(writers[1].op, writers[1].arg)}
    \cap
    {TargetKey(writers[2].op, writers[2].arg, j) : j \in Targets(writers[2].op, writers[2].arg)}

\* C12: two writers that upserted the same key, neither stopped by a store
\* failure of its own (a transient Error, a missing parent row), have both
\* completed, and the key has exactly one row, carrying the attributes of the
\* writer whose commit came last.
C12_LastWriterWins ==
    (/\ nWriters = 2
     /\ \A w \in Writers : /\ writers[w].calls = 1
                           /\ writers[w].pc \in {"returned", "failed"}
                           /\ writers[w].why \notin {"transient", "foreign_key"}
     /\ writers[1].op = writers[2].op
     /\ SharedKeys # {}) =>
        /\ \A w \in Writers : writers[w].pc = "returned"
        /\ Len(commitOrder) = 2
        /\ LET last == commitOrder[Len(commitOrder)]
               t == WTable(last)
           IN  \A k \in SharedKeys :
                  LET rows == {r \in udb[t] : UKey(t, r) = k}
                  IN  /\ Cardinality(rows) = 1
                      /\ \A r \in rows :
                            UAttr(t, r) = LastAttrFor(writers[last].op, writers[last].arg, k)

\* The keys save_or_update_interfaces is given.
GivenIfKeys ==
    {<<arg.router_id, SqlInt(arg.interfaces[j].ifIndex)>> : j \in DOMAIN arg.interfaces}

\* C13: no write operation touches rows outside its input.
\* save_or_update_interfaces leaves every interface row whose
\* (router_id, ifIndex) it was not given as it was, and the other tables too;
\* save_router removes no device row and changes only the row of its address;
\* save_interface_stats_batch keeps every existing sample row as it was and
\* changes no other table.
C13_FrameEffect ==
    /\ op = "save_or_update_interfaces" =>
          /\ \A r \in db0.interfaces :
                <<r.router_id, r.ifIndex>> \notin GivenIfKeys => r \in db.interfaces
          /\ \A r \in db0.interfaces :
                \E q \in db.interfaces : /\ q.interface_id = r.interface_id
                                         /\ q.router_id = r.router_id
                                         /\ q.ifIndex = r.ifIndex
          /\ db.routers = db0.routers
          /\ db.stats = db0.stats
    /\ op = "save_router" =>
          /\ \A r \in db0.routers :
                \E q \in db.routers : /\ q.router_id = r.router_id
                                      /\ q.ip_address = r.ip_address
                                      /\ r.ip_address # arg.router_ip => q = r
          /\ db.interfaces = db0.interfaces
          /\ db.stats = db0.stats
    /\ op = "save_interface_stats_batch" =>
          /\ db0.stats \subseteq db.stats
          /\ db.routers = db0.routers
          /\ db.interfaces = db0.interfaces

C13_Witness ==
    /\ op = "save_or_update_interfaces"
    /\ pc = "done"
    /\ outcome.val = PyTrue
    /\ db # db0
    /\ \E r \in db0.interfaces :
          /\ r.router_id = arg.router_id
          /\ <<r.router_id, r.ifIndex>> \notin GivenIfKeys
    /\ \E r \in db0.interfaces :
          /\ <<r.router_id, r.ifIndex>> \in GivenIfKeys
          /\ r \notin db.interfaces

\* The latest dated partition ends at least 3 x interval days after today.
Covered == parts # {} /\ LastPartitionDate(parts) - today >= 3 * interval

\* The invocation went through create_database_tables with no statement failing.
CleanSetup == run.setupResult = "True" /\ ~run.stmtFailed

\* C14: when create_database_tables has completed twice in succession on the
\* same date, the second invocation has created no partition, no two
\* partitions share a name or a range, and the latest partition ends at
\* least 3 x interval days after today.
C14_MaintenanceIdempotent ==
    (/\ interval > 0
     /\ CleanSetup
     /\ run.prev.valid
     /\ run.prev.clean
     /\ run.prev.today = today) =>
        /\ run.added = {}
        /\ \A q1, q2 \in parts :
              (q1.name = q2.name \/ q1.lessThan = q2.lessThan) => q1 = q2
        /\ Covered

SeededPartitions ==
    {Partition(today + i * interval, today + (i + 1) * interval) : i \in 0..(NumPartitions - 1)}

\* C16: the dated partitions are a chain: each spans interval days from the
\* date in its name, no two share a window or overlap, each but the earliest
\* starts where another ends; and a seeding that completed has created the
\* 6 consecutive partitions that start at the current date.
C16_PartitionChain ==
    interval > 0 =>
        /\ \A q \in parts : q.lessThan = q.name + interval
        /\ \A q1, q2 \in parts :
              q1 # q2 => (q1.lessThan <= q2.name \/ q2.lessThan <= q1.name)
        /\ \A q \in parts :
              \/ \A q2 \in parts : q.name <= q2.name
              \/ \E q2 \in parts : q2.lessThan = q.name
        /\ run.seeded => (run.before = {} /\ run.added = SeededPartitions /\ parts = run.added)

C16_Witness ==
    /\ interval > 0
    /\ Cardinality(parts) = NumPartitions + 2
    /\ run.ext.appended # {}
    /\ run.n = 3

\* C17: one invocation of maintain_partitions on a table with dated
\* partitions, its statements not failing, ends normally having appended the
\* one partition that starts at the latest end date and spans interval days
\* when that date is less than 3 x interval days after today, and none otherwise.
C17_ExtendAppendsOne ==
    (interval > 0 /\ run.ext.ran) =>
        /\ run.exc = "none"
        /\ run.ext.appended =
              IF run.ext.lastEnd - today < 3 * interval
              THEN {Partition(run.ext.lastEnd, run.ext.lastEnd + interval)}
              ELSE {}

\* C18: a poll starts only after create_database_tables ran exactly once in
\* this run and completed with no statement failing; in setup-only mode the
\* run that got past the tool check ran it once and exited without reading
\* the device list or polling.
C18_StartupOrdering ==
    /\ (run.pc = "poll" \/ run.polled) =>
          /\ run.setups = 1
          /\ CleanSetup
    /\ (run.db_setup /\ run.pc = "exited" /\ run.toolsOk) =>
          /\ run.setups = 1
          /\ ~run.listRead
          /\ ~run.polled

\* C19: once a statement of the schema setup has failed with a store Error,
\* create_database_tables returns False and the run exits non-zero without
\* reading the list or polling; the run also exits non-zero when the tool is
\* unavailable or the device list is empty.
C19_SetupErrorFatal ==
    /\ run.stmtFailed =>
          /\ run.pc \in {"setup_commit", "exited"}
          /\ run.pc = "exited" => /\ run.setupResult = "False"
                                  /\ run.exit = "nonzero"
                                  /\ ~run.polled
    /\ (run.pc = "exited" /\ (~run.toolsOk \/ run.listEmpty)) =>
          /\ run.exit = "nonzero"
          /\ ~run.polled

\* C20: a request that finds the pool exhausted does not fail at once (it
\* gives up only after its waits), and while it waits the other tasks can
\* run, so that one holding a connection can release it: every other task
\* that is ready to go on can be resumed.
C20_ExhaustedAcquireWaits ==
    \A t \in DOMAIN ptask :
        /\ (ptask[t].exhausted /\ ptask[t].pc = "raise") =>
              ptask[t].sleeps >= CmMaxRetries - 1
        /\ ptask[t].pc = "sleep" =>
              \A u \in DOMAIN ptask \ {t} :
                  (ptask[u].pc = "ready" /\ ptask[u].calls < MaxDaoCalls) =>
                      ENABLED TaskResume(u)

\* A poll task that waits: in the backoff of execute_with_retry, in the
\* pause of db_connection, or in the delay between two requests.
Waiting(d) == d.pc \in {"backoff", "pause", "delay"}

\* A poll task that the event loop can resume as soon as what it awaits
\* has happened.
Runnable(d) == d.pc \in {"ready", "io", "delay"}

\* C21: no wait blocks the scheduler: while one task waits in a store-retry
\* backoff, in a connection-acquire pause or in an inter-request delay,
\* every other runnable task can take its next step.
C21_NoWaitBlocksScheduler ==
    \A t \in DOMAIN dtask :
        Waiting(dtask[t]) =>
            \A u \in DOMAIN dtask \ {t} :
                Runnable(dtask[u]) => ENABLED TaskStep(u)

\* C22: within one poll task at most one get/walk is outstanding, and a
\* query starts only as the first one or after the request_interval sleep
\* that followed the completion of the previous one.
C22_QueriesSequential ==
    /\ [](\A t \in DOMAIN dtask : dtask[t].outstanding <= 1)
    /\ [][\A t \in DOMAIN dtask :
             dtask'[t].outstanding > dtask[t].outstanding =>
                 /\ dtask[t].outstanding = 0
                 /\ dtask[t].last \in {"none", "delay"}]_vars

C22_Witness ==
    \E t \in DOMAIN dtask :
        /\ dtask[t].fn = "get_ip_to_interface_mapping"
        /\ dtask[t].k = 2
        /\ dtask[t].pc = "io"
        /\ dtask[t].outstanding = 1

\* No entry of the walk result has a type code of the allow-list; the
\* result of a failed walk and of an empty one has no entry at all.
NoMonitoredType(m) ==
    \A i \in DOMAIN m :
        ~(m[i].tag = "int" /\ m[i].n \in INTERFACE_TYPES_TO_MONITOR)

\* C28: when the type-code walk fails, is empty or yields no index with a
\* monitored type code, get_monitored_interfaces returns an empty mapping
\* without an exception, and the task issues no further query to the device
\* after the type-code walk.
C28_SoftFailureNoFurtherQuery ==
    /\ [](\A t \in DOMAIN dtask :
             dtask[t].result = "empty" =>
                 /\ ~dtask[t].afterTypes
                 /\ dtask[t].outstanding = 0
                 /\ dtask[t].ended # "raised")
    /\ [][\A t \in DOMAIN dtask :
             ( /\ dtask[t].fn = "get_monitored_interfaces"
               /\ dtask[t].k = 0
               /\ dtask[t].pc = "delay"
               /\ NoMonitoredType(dtask[t].if_types)
               /\ dtask'[t] # dtask[t] ) =>
                 /\ dtask'[t].result = "empty"
                 /\ dtask'[t].fn \notin ClientFns
                 /\ dtask'[t].pc = "ready"]_vars

C28_Witness ==
    \E t \in DOMAIN dtask :
        /\ dtask[t].walked
        /\ dtask[t].result = "empty"
        /\ dtask[t].ended = "success"

\* The values snmp_get can return for the answers of the device.
GetValues == {PyInt(1), PyText}

\* C29: snmp_get and snmp_walk never raise, whatever the transport does:
\* snmp_get returns a value or None, and None when the transport failed;
\* snmp_walk returns a mapping, the empty one when the transport failed; no
\* poll task ends by an exception of the gateway.
C29_GatewayNeverRaises ==
    \A t \in DOMAIN dtask :
        /\ dtask[t].ended # "raised"
        /\ dtask[t].gw.raised = "none"
        /\ dtask[t].gw.op = "snmp_get" =>
              /\ dtask[t].gw.val \in GetValues \cup {PyNone}
              /\ dtask[t].gw.failed => dtask[t].gw.val = PyNone
        /\ dtask[t].gw.op = "snmp_walk" =>
              /\ dtask[t].gw.map \in TypeTables \cup AttrTables \cup {NoSuchObjectMap}
              /\ dtask[t].gw.failed => dtask[t].gw.map = EmptyMap

C29_Witness ==
    \E t, u \in DOMAIN dtask :
        /\ dtask[t].gw.op = "snmp_get"
        /\ dtask[t].gw.failed
        /\ dtask[t].pc = "delay"
        /\ dtask[u].gw.op = "snmp_walk"
        /\ dtask[u].gw.failed
        /\ dtask[u].pc = "delay"

\* C23: read_router_ips followed by process_routers creates exactly one
\* poll task per distinct address of the list file, so that no two tasks
\* poll the same device at the same time.
C23_OneTaskPerDevice ==
    pcMain \in {"gather", "save", "returned", "raised"} =>
        /\ Cardinality(DOMAIN task) = Cardinality(Range(router_ips))
        /\ \A i, j \in DOMAIN task :
              (i # j /\ task[i] = "polling" /\ task[j] = "polling") =>
                  router_ips[i] # router_ips[j]

\* The addresses whose poll failed in this run.
FailedAddresses == {router_ips[i] : i \in {j \in DOMAIN task : task[j] = "failed"}}

\* C24: the failure file is written only when the failure list is not
\* empty; when it is written, its former content is gone and it holds the
\* addresses that failed in this run, one per line, each once.
C24_FailureFileContent ==
    pcMain = "returned" =>
        /\ failed_routers = <<>> => (~handed.called /\ failedFile \in PriorFiles)
        /\ (handed.called /\ failedFile = [exists |-> TRUE, lines |-> handed.list]) =>
              /\ Range(failedFile.lines) = FailedAddresses
              /\ \A i, j \in DOMAIN failedFile.lines :
                    failedFile.lines[i] = failedFile.lines[j] => i = j

\* A line that holds one address, with white space around it and possibly a
\* comment after it.
ValidLine(line) ==
    \E p \in DOMAIN line :
        /\ line[p] \in AddressTexts
        /\ \A q \in 1..(p - 1) : line[q] = " "
        /\ \A q \in (p + 1)..Len(line) :
              line[q] = " " \/ \E h \in (p + 1)..q : line[h] = "#"

\* The address of a valid line, in canonical text.
AddressOf(line) ==
    LET p == CHOOSE q \in DOMAIN line : line[q] \in AddressTexts
    IN  IF line[p] = "2001:DB8::1" THEN "2001:db8::1" ELSE line[p]

\* C30: read_router_ips returns the addresses of the valid lines of the
\* file, in file order; comments and blank lines are ignored and a
\* malformed line is skipped, the lines after it still being read.
C30_ReadReturnsValidAddresses ==
    pcMain # "read" =>
        LET valid == SelectSeq(listFile.lines, ValidLine)
        IN  router_ips = [i \in 1..Len(valid) |-> AddressOf(valid[i])]

C30_Witness ==
    /\ pcMain = "process"
    /\ Len(listFile.lines) = 3
    /\ ~ValidLine(listFile.lines[2])
    /\ listFile.lines[2] \notin {<<>>, <<" ">>}
    /\ BeforeHash(listFile.lines[2]) # <<>>
    /\ ValidLine(listFile.lines[1])
    /\ ValidLine(listFile.lines[3])
    /\ "#" \in Range(listFile.lines[3])
    /\ Len(router_ips) = 2

\* The positions i of the rows whose pair (stats[i-1], stats[i]) has a
\* positive elapsed time, in order.
PositivePairs(stats) ==
    SelectSeq([j \in 1..(Len(stats) - 1) |-> j + 1],
              LAMBDA i : stats[i].timestamp - stats[i - 1].timestamp > 0)

NonNegative(q) == q.num >= 0 /\ q.den > 0

\* C25: for a pair with positive elapsed time whose octet delta is negative
\* the raw counter of the current sample is taken as the delta, and with
\* non-negative counters every emitted rate and utilization is non-negative.
C25_ResetsNonNegative ==
    util.pc = "returned" =>
        LET recs  == util.result.records
            pairs == PositivePairs(util.stats)
        IN  /\ \A k \in DOMAIN recs :
                  /\ NonNegative(recs[k].in_bps)
                  /\ NonNegative(recs[k].out_bps)
                  /\ NonNegative(recs[k].in_utilization)
                  /\ NonNegative(recs[k].out_utilization)
            /\ Len(recs) = Len(pairs) =>
                  \A k \in DOMAIN recs :
                      LET curr == util.stats[pairs[k]]
                          prev == util.stats[pairs[k] - 1]
                      IN  /\ OctetDelta(curr, prev, "ifHCInOctets", "ifInOctets") < 0 =>
                                recs[k].in_bps.num \in
                                    {8 * curr.ifHCInOctets, 8 * curr.ifInOctets}
                          /\ OctetDelta(curr, prev, "ifHCOutOctets", "ifOutOctets") < 0 =>
                                recs[k].out_bps.num \in
                                    {8 * curr.ifHCOutOctets, 8 * curr.ifOutOctets}

C25_Witness ==
    /\ util.pc = "returned"
    /\ \E k \in DOMAIN util.result.records :
          /\ Len(util.result.records) = Len(PositivePairs(util.stats))
          /\ LET curr == util.stats[PositivePairs(util.stats)[k]]
                 prev == util.stats[PositivePairs(util.stats)[k] - 1]
             IN  /\ OctetDelta(curr, prev, "ifHCInOctets", "ifInOctets") < 0
                 /\ util.result.records[k].in_bps.num > 0

\* The speed is a number other than zero.
NonZeroSpeed(interface) ==
    /\ interface.found
    /\ InterfaceSpeed(interface).tag = "int"
    /\ InterfaceSpeed(interface).n # 0

\* C26: with a non-zero speed and at least two samples, the result has one
\* record for each adjacent pair whose elapsed time is positive and none for
\* the others, in input order, each with the timestamp of the pair's second
\* sample and computed from the adjacent pair, also after a skipped pair.
C26_OneRecordPerPositivePair ==
    (util.pc = "returned" /\ NonZeroSpeed(util.interface) /\ Len(util.stats) >= 2) =>
        LET recs  == util.result.records
            pairs == PositivePairs(util.stats)
        IN  /\ Len(recs) = Len(pairs)
            /\ \A k \in DOMAIN recs :
                  /\ recs[k].timestamp = util.stats[pairs[k]].timestamp
                  /\ recs[k].in_bps.den =
                        util.stats[pairs[k]].timestamp - util.stats[pairs[k] - 1].timestamp
                  /\ <<recs[k]>> = PairRecord(util.stats[pairs[k] - 1], util.stats[pairs[k]],
                                              InterfaceSpeed(util.interface)).records

C26_Witness ==
    /\ util.pc = "returned"
    /\ util.interface = RefInterface
    /\ Len(util.stats) = 3
    /\ util.stats[2].timestamp = util.stats[1].timestamp
    /\ util.stats[3].timestamp > util.stats[2].timestamp
    /\ util.stats[3].ifInOctets # util.stats[1].ifInOctets
    /\ Len(util.result.records) = 1

\* The speed column is NULL or 0.
ZeroOrAbsent(v) == v.tag = "None" \/ v.n = 0

\* C27: the result is empty, and nothing is raised, when the interface is
\* unknown, when both speeds are zero or absent, or when there are fewer
\* than two samples; a record is computed with the high-capacity speed when
\* that is non-zero and with the standard speed otherwise.
C27_EmptyResultsAndSpeedChoice ==
    util.pc = "returned" =>
        LET recs  == util.result.records
            i     == util.interface
            speed == IF ZeroOrAbsent(i.ifHighSpeed) THEN i.ifSpeed ELSE i.ifHighSpeed
        IN  /\ util.result.raised = "none"
            /\ ( \/ ~i.found
                 \/ ZeroOrAbsent(i.ifHighSpeed) /\ ZeroOrAbsent(i.ifSpeed)
                 \/ Len(util.stats) < 2 ) => recs = <<>>
            /\ \A k \in DOMAIN recs :
                  /\ recs[k].in_utilization.den = recs[k].in_bps.den * speed.n * 1000000
                  /\ recs[k].out_utilization.den = recs[k].out_bps.den * speed.n * 1000000

C27_Witness ==
    /\ util.pc = "returned"
    /\ util.interface.found
    /\ util.interface.ifHighSpeed = PyInt(0)
    /\ util.interface.ifSpeed = PyNone
    /\ Len(PositivePairs(util.stats)) >= 1
    /\ util.result.caught = "TypeError"
    /\ util.result.records = <<>>


\* The counter family of a direction of a pair: wide when both samples have
\* a non-zero wide value.
WideUsed(curr, prev, hc) == curr[hc] # 0 /\ prev[hc] # 0

\* The octets of a direction of a pair when the delta and the value that
\* replaces a negative delta come from one family.
SameFamilyOctets(curr, prev, hc, std) ==
    LET family == IF WideUsed(curr, prev, hc) THEN hc ELSE std
        delta  == curr[family] - prev[family]
    IN  IF delta < 0 THEN curr[family] ELSE delta

\* C38: in each direction of each pair the wide counters give the delta
\* exactly when both samples have non-zero wide values, the standard counters
\* otherwise, and the raw value that replaces a negative delta is the current
\* sample's counter of that same family.
C38_SameCounterFamily ==
    util.pc = "returned" =>
        LET recs  == util.result.records
            pairs == PositivePairs(util.stats)
        IN  Len(recs) = Len(pairs) =>
                \A k \in DOMAIN recs :
                    LET curr == util.stats[pairs[k]]
                        prev == util.stats[pairs[k] - 1]
                    IN  /\ recs[k].in_bps.num =
                              8 * SameFamilyOctets(curr, prev, "ifHCInOctets", "ifInOctets")
                        /\ recs[k].out_bps.num =
                              8 * SameFamilyOctets(curr, prev, "ifHCOutOctets", "ifOutOctets")


\* The addresses the failure file lists; none when there is no file.
ListedAddresses == IF failedFile.exists THEN Range(failedFile.lines) ELSE {}

\* C39: when process_routers has returned from a run over at least one
\* device (and the write of the file, if one was made, went through), the
\* failure file lists exactly the addresses that failed in this run: none
\* after a run without failures.
C39_FailureFileIsCurrent ==
    (/\ pcMain = "returned"
     /\ router_ips # <<>>
     /\ handed.called => failedFile = [exists |-> TRUE, lines |-> handed.list]) =>
        ListedAddresses = Range(failed_routers)


\* C32: a with-statement over db_connection is given a connection at most
\* once: after its body has run the manager neither resumes the retry loop
\* nor acquires again, and an Error of the body leaves the with-statement as
\* that Error, never as another exception.
C32_BodyEnteredOnce ==
    /\ \A k \in 1..2 : hist.yields[k] <= 1
    /\ pc # "reenter"
    /\ exc # "RuntimeError"


\* The connections handed out and not yet given back.
HeldConnections == {h \in DOMAIN closes : closes[h] = 0}

\* C33: an operation never holds more than one pooled connection, and it
\* never asks the pool for a connection while the one it holds in a running
\* with-body is the last of the pool, so a pool of one is enough for it.
C33_OneConnectionAtATime ==
    /\ Cardinality(HeldConnections) <= 1
    /\ ~(pc = "enter" /\ cm[1].st = "body" /\ Free = 0)


\* The documented priority of the patterns, after the rule for the empty
\* text.
DocumentedOrder == <<"quoted", "integer", "counter", "ticks", "hex", "ip">>

\* The rule the documented priority gives a text.
DocumentedRule(s) ==
    IF Applies("empty", s) THEN "empty"
    ELSE IF \E k \in DOMAIN DocumentedOrder : Applies(DocumentedOrder[k], s)
    THEN DocumentedOrder[CHOOSE k \in DOMAIN DocumentedOrder :
                            /\ Applies(DocumentedOrder[k], s)
                            /\ \A j \in 1..(k - 1) : ~Applies(DocumentedOrder[j], s)]
    ELSE IF IntParses(s) THEN "int"
    ELSE IF FloatParses(s) THEN "float"
    ELSE "text"

\* The lines of an output that have an "=".
PairLines(lines) == {k \in DOMAIN lines : Strip(lines[k]) # <<>> /\ FirstEquals(lines[k]) # 0}

IfAttrNames ==
    {"ifIndex", "ifDescr", "ifName", "ifType", "ifMTU", "ifSpeed", "ifPhysAddress",
     "ifAdminStatus", "ifOperStatus", "ifInOctets", "ifOutOctets", "ifHCInOctets",
     "ifHCOutOctets", "ifHighSpeed", "ifAlias"}

\* The indices of the device's interfaces with a monitored type.
DeviceMonitored(dev) ==
    {<<"1">>} \cup (IF DigitVal[dev.type2] \in INTERFACE_TYPES_TO_MONITOR THEN {<<"2">>} ELSE {})

\* C34: a call of get_monitored_interfaces that finds monitored indices
\* walks each table once, the IP tables only in the final step, and returns
\* one record per monitored index whose keys are ifIndex, ifType, interface
\* attributes and ipAddresses only.
C34_EachTableWalkedOnce ==
    (bind.pc = "returned" /\ bind.result.interfaces # <<>>) =>
        LET r == bind.result
        IN  /\ Injective(r.walked)
            /\ \A p \in 1..(Len(r.walked) - Len(IpOids)) : r.walked[p] \in IfAttrNames
            /\ DictKeys(r.interfaces) = DeviceMonitored(bind.dev)
            /\ \A i \in DOMAIN r.interfaces :
                  DictKeys(r.interfaces[i].val) \subseteq IfAttrNames \cup {"ipAddresses"}

\* The addresses in the ipAddresses field of the record of an index.
AddressesOf(r, index) ==
    IF index \in DictKeys(r.ip_if_mapping)
    THEN r.ip_if_mapping[DictGet(r.ip_if_mapping, index)].val
    ELSE <<>>

\* C35: when both IP tables were read, every address the device reports
\* for a monitored interface is in the ipAddresses field of that interface
\* exactly once, and no record lists an address of another interface.
C35_IpBindingComplete ==
    (/\ bind.pc = "returned"
     /\ bind.result.interfaces # <<>>
     /\ bind.failing \cap {Len(WalkedNames) - 1, Len(WalkedNames)} = {}) =>
        LET r == bind.result
        IN  /\ \A k \in DOMAIN bind.dev.addrs :
                  LET b == bind.dev.addrs[k]
                  IN  <<b.if_index>> \in DictKeys(r.interfaces) =>
                         Cardinality({j \in DOMAIN AddressesOf(r, <<b.if_index>>) :
                                         AddressesOf(r, <<b.if_index>>)[j] = Dotted(b.addr)}) = 1
            /\ \A i \in DOMAIN r.interfaces :
                  /\ r.interfaces[i].val[DictGet(r.interfaces[i].val, "ipAddresses")].val.text
                        = JoinComma(AddressesOf(r, r.interfaces[i].key))
                  /\ \A j \in DOMAIN AddressesOf(r, r.interfaces[i].key) :
                        \E k \in DOMAIN bind.dev.addrs :
                            /\ Dotted(bind.dev.addrs[k].addr) =
                                  AddressesOf(r, r.interfaces[i].key)[j]
                            /\ <<bind.dev.addrs[k].if_index>> = r.interfaces[i].key


\* C36: no two sample rows have the same (interface_id, timestamp), and
\* the rows a batch adds are none or one per accepted sample, all with the
\* time of the batch.
C36_SamplesUniqueByKey ==
    /\ \A r1, r2 \in samp.stats :
          (r1.interface_id = r2.interface_id /\ r1.timestamp = r2.timestamp) => r1 = r2
    /\ LET added == samp.stats \ samp.last.before
       IN  /\ samp.last.before \subseteq samp.stats
           /\ Cardinality(added) \in {0, samp.last.samples}
           /\ \A r \in added : r.timestamp = samp.last.time


\* The sample is a record of get_monitored_interfaces (its ifIndex is the
\* key of the walk, a str) whose interface save_or_update_interfaces has
\* stored for the router.
PersistedWalkRecord(sample) ==
    /\ sample.ifIndex.tag = "str"
    /\ sample.numeric
    /\ \E r \in db0.interfaces :
          /\ r.router_id = arg.router_id
          /\ r.ifIndex = SqlInt(sample.ifIndex)

\* C37: when every sample of a batch is a persisted record of the walk and
\* the map was read back from the store without a failure, every sample's
\* ifIndex is a key of the map and one row is written per sample.
C37_WalkIndexFound ==
    (/\ IsBatch
     /\ pc = "done"
     /\ hist.mapResolved
     /\ DOMAIN interface_map # {}
     /\ ~hist.storeError
     /\ hist.bodyError = "none"
     /\ arg.interfaces_data # <<>>
     /\ \A k \in DOMAIN arg.interfaces_data : PersistedWalkRecord(arg.interfaces_data[k])) =>
        /\ KnownSamples = DOMAIN arg.interfaces_data
        /\ Cardinality(NewStats) = Len(arg.interfaces_data)
        /\ outcome.val = PyTrue

=============================================================================
